---- MODULE Spec2Model ----
(***************************************************************************)
(* Offline-first logbook: the sync orchestrator (services/syncService),    *)
(* the persistence layer (services/database) and the schema migration      *)
(* manager (services/migrations/MigrationManager).                         *)
(*                                                                         *)
(* Concurrency is cooperative: every `await` of the source is a suspension *)
(* point, the code between two awaits runs atomically.  Each action below  *)
(* is the code between two suspension points of one task.                  *)
(***************************************************************************)
EXTENDS Integers, Sequences, FiniteSets, TLC

\* ---------------------------------------------------------------- bounds
MaxEntries == 2          \* rows flight_entries may ever hold (ids 1..MaxEntries)
MaxClock == 2            \* last value of the wall clock (seconds, datetime('now'))
NumTasks == 2            \* cooperative tasks that may call syncNow()
MaxLegacyRows == 1       \* rows a pre-ledger install holds in flight_entries
MaxTicks == 4            \* last value of the migration clock, in half days
NumCallers == 2          \* cooperative tasks that may call checkAndRunMigrations
MaxCalls == 2            \* passes begun within one run of the model
NumListeners == 2        \* status listeners that may subscribe
MaxAirports == 2         \* airports in one bulkInsertAirports list
MaxHeard == 1             \* a listener subscribes while it has heard fewer calls

Ids == 1..MaxEntries
Tasks == 1..NumTasks
Listeners == 1..NumListeners
Null == 0                \* SQL NULL / undefined for numeric fields
ServerIdOf(i) == 100 + i \* the identity the remote assigns to local id i
SyncStates == {"pending", "synced", "error"}
Remarks == {"r1"}        \* values the UI writes to the domain field `remarks`

VARIABLES
  rows,          \* flight_entries: [existing ids -> row]
  nextId,        \* AUTOINCREMENT counter of flight_entries
  now,           \* wall clock
  syncing,       \* SyncService.syncing
  currentStatus, \* SyncService.currentStatus
  pc,            \* per task: position inside syncNow()/pushEntries()
  silent,        \* per task: options.silent of the running call
  batch,         \* per task: pendingEntries (the snapshots read by the pass)
  resp,          \* per task: what ApiClient.syncEntries settled with
  idx,           \* per task: loop index of the running write-back loop
  syncedCount,   \* per task: pushEntries' syncedCount
  result,        \* per task: SyncResult of the last finished call
  requests,      \* number of ApiClient.syncEntries requests sent so far
  calls,         \* number of passes begun so far
  fault,         \* per task: a database call of the running pass threw
  emitted,       \* per task: statuses the running call passed to updateStatus
  touched,       \* the UI wrote flight_entries since the running pass read it
  conn,          \* per task: what NetInfo.fetch() settled with in the running pass
  bg,            \* the background task callback: its position or its outcome
  listeners,     \* SyncService.listeners
  heard          \* per listener: the statuses it was called with, in order

VARIABLES
  db,             \* the SQLite database: ledger, tables, columns, indexes, rows
  tx,             \* <<snapshot>> while a transaction is open, else <<>>
  sessionVersion, \* MigrationManager.currentSessionVersion (Null for null)
  lastCheck,      \* AsyncStorage[MIGRATION_CHECK_KEY]: <<ms>> or <<>>
  wall,           \* Date.now(), in steps of HalfDay
  mpc,            \* per caller: position inside checkAndRunMigrations
  cur,            \* per caller: currentVersion as probed
  before,         \* per caller: the database when the running call began
  probed,         \* per caller: the running call probed the schema version
  mfault,         \* per caller: a storage call of the running call threw
  failedAt,       \* per caller: the position at which the call threw, or ""
  everOk          \* a call returned without throwing, and nothing but the
                  \* migration manager changed the schema since

migVars == <<db, tx, sessionVersion, lastCheck, wall, mpc, cur, before,
             probed, mfault, failedAt, everOk>>

syncVars == <<rows, nextId, now, syncing, currentStatus, pc, silent, batch,
              resp, idx, syncedCount, result, requests, calls, fault, emitted,
              touched, conn, bg, listeners, heard>>
VARIABLES
  dpc,           \* position of the running Database call (a CRUD method)
  initialized    \* Database.initialized

dbVars == <<dpc, initialized>>

VARIABLES
  outcome        \* how the last call of a Database method settled

storeVars == <<outcome>>

VARIABLES
  airports,      \* the airports table: its rows and its AUTOINCREMENT counter
  atx,           \* <<snapshot>> while bulkInsertAirports' transaction is open
  apc,           \* position of the running bulkInsertAirports call
  alist,         \* its argument
  aidx,          \* the index of its loop
  abefore,       \* the airports table when the running call began
  prevList       \* <<list>> of the last call that resolved, else <<>>

airVars == <<airports, atx, apc, alist, aidx, abefore, prevList>>

VARIABLES
  edited         \* ids the UI reset to pending after the running pass read them

editVars == <<edited>>

vars == <<syncVars, migVars, dbVars, storeVars, airVars, editVars>>

\* ------------------------------------------------------------ persistence
\* Database.createEntry: every column comes from the caller, created_at
\* from datetime('now').  (updated_at, which every write refreshes and no
\* code reads, is not a field of the model's rows.)
NewRow(id, st, sync) ==
  [id |-> id, serverId |-> Null, status |-> st, remarks |-> "r0",
   syncStatus |-> sync, lastSyncedAt |-> Null, createdAt |-> now]

\* Database.markAsSynced: UPDATE ... WHERE id = ? (no row, no change).
MarkAsSynced(tbl, id, serverId) ==
  IF id \in DOMAIN tbl
  THEN [tbl EXCEPT ![id] = [@ EXCEPT !.syncStatus = "synced",
                                     !.serverId = serverId,
                                     !.lastSyncedAt = now]]
  ELSE tbl

\* The columns a patch may name; id and createdAt are filtered out.
Updatable == {"serverId", "status", "remarks", "syncStatus", "lastSyncedAt"}

\* Database.updateEntry with a patch naming at least one updatable field:
\* UPDATE flight_entries SET <fields>, updated_at = datetime('now') WHERE id = ?
UpdateEntry(tbl, id, patch) ==
  IF id \in DOMAIN tbl
  THEN [tbl EXCEPT ![id] =
          [f \in DOMAIN @ |->
             IF f \in DOMAIN patch /\ f \in Updatable THEN patch[f]
             ELSE @[f]]]
  ELSE tbl

\* Database.getStats
GetStats(tbl) ==
  [total |-> Cardinality(DOMAIN tbl),
   pending |-> Cardinality({i \in DOMAIN tbl : tbl[i].syncStatus = "pending"}),
   synced |-> Cardinality({i \in DOMAIN tbl : tbl[i].syncStatus = "synced"})]

PendingIds(tbl) == {i \in DOMAIN tbl : tbl[i].syncStatus = "pending"}

IsInjective(s) == \A i, j \in 1..Len(s) : s[i] = s[j] => i = j

\* (variant: the read does not order its rows)
PendingOrders_Any(tbl) ==
  {s \in [1..Cardinality(PendingIds(tbl)) -> PendingIds(tbl)] : IsInjective(s)}

\* Database.getPendingSyncEntries: WHERE sync_status = 'pending'
\* ORDER BY created_at ASC.  Rows of one second come in any order.
PendingOrders(tbl) ==
  {s \in [1..Cardinality(PendingIds(tbl)) -> PendingIds(tbl)] :
     /\ IsInjective(s)
     /\ \A i, j \in 1..Len(s) :
          i < j => tbl[s[i]].createdAt <= tbl[s[j]].createdAt}

\* mapRowToEntry, restricted to the fields a pass reads from its snapshot.
Snapshot(row) == [id |-> row.id, serverId |-> row.serverId]

\* ------------------------------------------------------- sync orchestrator
Status(s, p) == [status |-> s, progress |-> p]
NoResult == [success |-> FALSE, synced |-> -1, failed |-> -1, error |-> ""]
Busy == "Sync already in progress"
Thrown == "listener threw"       \* the rejection of a call a listener broke
Offline == "No internet connection"
NoResp == [kind |-> "none", synced |-> <<>>, failed |-> {}, anon |-> 0,
           error |-> ""]

\* What ApiClient.syncEntries can settle with.  A response carries the
\* `synced` items as a map local id -> server id, the `failed` items as the
\* set of their local ids plus `anon` items without a local id, and an
\* optional error text.  kind = "nodetail" is a response with neither array;
\* "neterr" is an axios error whose message is "Network Error"; "othererr"
\* is any other rejection (timeout, HTTP error status).
SyncedMaps == {[i \in S |-> ServerIdOf(i)] : S \in SUBSET Ids}
Responses ==
  {[kind |-> "detail", synced |-> m, failed |-> F, anon |-> a, error |-> e] :
      m \in SyncedMaps, F \in SUBSET Ids, a \in {0}, e \in {""}}
  \cup {[kind |-> k, synced |-> <<>>, failed |-> {}, anon |-> 0, error |-> ""] :
      k \in {"nodetail", "neterr", "othererr"}}

\* (variant: only one of the listeners is called)
Deliver_First(ss) ==
  heard' = [l \in Listeners |->
              IF l \in listeners /\ \A k \in listeners : l <= k
              THEN heard[l] \o ss ELSE heard[l]]

\* updateStatus: this.listeners.forEach((listener) => listener(status)),
\* for each status of ss in turn.
Deliver(ss) ==
  heard' = [l \in Listeners |->
              IF l \in listeners THEN heard[l] \o ss ELSE heard[l]]

\* (variant: updateStatus is reached by silent calls too)
Emit_Loud(t, ss) ==
  IF ss = <<>>
  THEN UNCHANGED <<currentStatus, emitted, heard>>
  ELSE /\ currentStatus' = ss[Len(ss)]
       /\ emitted' = [emitted EXCEPT ![t] = @ \o ss]
       /\ Deliver(ss)

\* SyncService.updateStatus, which a silent call does not reach.
Emit(t, ss) ==
  IF silent[t] \/ ss = <<>>
  THEN UNCHANGED <<currentStatus, emitted, heard>>
  ELSE /\ currentStatus' = ss[Len(ss)]
       /\ emitted' = [emitted EXCEPT ![t] = @ \o ss]
       /\ Deliver(ss)

\* syncNow's catch block followed by its finally block.
Catch(t, msg) ==
  /\ Emit(t, <<[status |-> "error", progress |-> 0]>>)
  /\ result' = [result EXCEPT ![t] =
        [success |-> FALSE, synced |-> -1, failed |-> 0, error |-> msg]]
  /\ syncing' = FALSE
  /\ pc' = [pc EXCEPT ![t] = "done"]

\* The part of syncNow after `await this.pushEntries(...)`, then finally.
AfterPush(t, pre, r) ==
  /\ IF r.failed > 0
     THEN /\ Emit(t, pre \o <<Status("error", 100)>>)
          /\ result' = [result EXCEPT ![t] =
                [r EXCEPT !.success = FALSE,
                          !.error = IF r.error = ""
                                    THEN "Some entries failed to sync"
                                    ELSE r.error]]
     ELSE /\ Emit(t, pre \o <<Status("success", 100), Status("idle", 100)>>)
          /\ result' = [result EXCEPT ![t] = [r EXCEPT !.success = TRUE]]
  /\ syncing' = FALSE
  /\ pc' = [pc EXCEPT ![t] = "done"]

\* syncNow: `if (this.syncing) return {...}` lets a call through only when
\* no pass is running.
MayBegin_Always == TRUE
\* (variant: the background task holds a busy flag of its own)
MayBegin_OwnFlag == ~syncing \/ pc[NumTasks] \notin {"idle", "done"}
MayBegin == ~syncing

\* syncNow(), entered while another pass is running.
SyncNow_Busy(t) ==
  /\ pc[t] = "idle"
  /\ ~MayBegin
  /\ pc' = [pc EXCEPT ![t] = "done"]
  /\ result' = [result EXCEPT ![t] =
        [success |-> FALSE, synced |-> -1, failed |-> -1, error |-> Busy]]
  /\ UNCHANGED <<rows, nextId, now, syncing, currentStatus, silent, batch,
                 resp, idx, syncedCount, requests, calls, fault, emitted,
                 touched, heard, listeners, conn>>

\* syncNow() up to `await NetInfo.fetch()`.
SyncNow_Begin(t, s) ==
  /\ pc[t] = "idle"
  /\ MayBegin
  /\ syncing' = TRUE
  /\ silent' = [silent EXCEPT ![t] = s]
  /\ emitted' = [emitted EXCEPT ![t] =
        IF s THEN <<>> ELSE <<Status("syncing", 0)>>]
  /\ currentStatus' = IF s THEN currentStatus ELSE Status("syncing", 0)
  /\ Deliver(IF s THEN <<>> ELSE <<Status("syncing", 0)>>)
  /\ pc' = [pc EXCEPT ![t] = "netinfo"]
  /\ calls < MaxCalls
  /\ calls' = calls + 1
  /\ UNCHANGED <<rows, nextId, now, batch, resp, idx, syncedCount, result,
                 requests, fault, touched, listeners, conn>>

\* syncNow() when listener l throws while the first status is delivered:
\* `this.syncing = true` and updateStatus run before the try block, so the
\* exception leaves syncNow at once and the promise rejects.  forEach stops
\* at l: the listeners in H, which come before l in the Set, were called.
SyncNow_BeginThrows(t, l, H) ==
  /\ pc[t] = "idle"
  /\ MayBegin
  /\ l \in listeners
  /\ H \subseteq listeners /\ l \in H
  /\ syncing' = TRUE
  /\ silent' = [silent EXCEPT ![t] = FALSE]
  /\ emitted' = [emitted EXCEPT ![t] = <<Status("syncing", 0)>>]
  /\ currentStatus' = Status("syncing", 0)
  /\ heard' = [k \in Listeners |->
                IF k \in H THEN heard[k] \o <<Status("syncing", 0)>>
                ELSE heard[k]]
  /\ pc' = [pc EXCEPT ![t] = "done"]
  /\ result' = [result EXCEPT ![t] =
        [success |-> FALSE, synced |-> -1, failed |-> -1, error |-> Thrown]]
  /\ calls < MaxCalls
  /\ calls' = calls + 1
  /\ UNCHANGED <<rows, nextId, now, batch, resp, idx, syncedCount, requests,
                 fault, touched, listeners, conn, bg>>

\* (variant: the connectivity state is not looked at)
Connected_Any(net) == net # "throws"

\* `state.isConnected` of what NetInfo.fetch() resolved with.
Connected(net) == net = "connected"

\* NetInfo.fetch() settles: connected, not connected, or it rejects.
NetInfoFetch(t, net) ==
  /\ pc[t] = "netinfo"
  /\ conn' = [conn EXCEPT ![t] = net]
  /\ IF Connected(net)
     THEN /\ pc' = [pc EXCEPT ![t] = "read"]
          /\ UNCHANGED <<syncing, currentStatus, emitted, result, heard>>
     ELSE Catch(t, IF net = "offline" THEN Offline ELSE "netinfo failed")
  /\ UNCHANGED <<rows, nextId, now, silent, batch, resp, idx, syncedCount,
                 requests, calls, fault, touched, listeners, bg>>

\* (variant: an empty read is reported as a failure)
NothingToSync_Failure ==
  [success |-> FALSE, synced |-> 0, failed |-> 0, error |-> "nothing to sync"]

\* syncNow: `if (total === 0)` returns { success: true, synced: 0, failed: 0 }.
NothingToSync == [success |-> TRUE, synced |-> 0, failed |-> 0, error |-> ""]

\* database.getPendingSyncEntries() settles; with entries, pushEntries runs
\* up to `await ApiClient.syncEntries(payload)`.
ReadPending(t, ok) ==
  /\ pc[t] = "read"
  /\ requests' = IF ok /\ PendingIds(rows) # {} THEN requests + 1 ELSE requests
  /\ IF ~ok
     THEN /\ Catch(t, "storage fault")
          /\ fault' = [fault EXCEPT ![t] = TRUE]
          /\ UNCHANGED <<batch, touched>>
     ELSE /\ touched' = FALSE
          /\ UNCHANGED fault
          /\ \E order \in PendingOrders(rows) :
               batch' = [batch EXCEPT ![t] =
                          [i \in 1..Len(order) |-> Snapshot(rows[order[i]])]]
          /\ IF PendingIds(rows) = {}
             THEN /\ Emit(t, <<Status("idle", 100)>>)
                  /\ result' = [result EXCEPT ![t] = NothingToSync]
                  /\ syncing' = FALSE
                  /\ pc' = [pc EXCEPT ![t] = "done"]
             ELSE /\ pc' = [pc EXCEPT ![t] = "remote"]
                  /\ UNCHANGED <<syncing, currentStatus, emitted, result, heard>>
  /\ UNCHANGED <<rows, nextId, now, silent, resp, idx, syncedCount, calls, listeners, bg, conn>>

\* ApiClient.syncEntries settles with r.
RemoteSettles(t, r) ==
  /\ pc[t] = "remote"
  /\ resp' = [resp EXCEPT ![t] = r]
  /\ idx' = [idx EXCEPT ![t] = 1]
  /\ pc' = [pc EXCEPT ![t] =
        CASE r.kind = "neterr" -> "catchNet"
          [] r.kind = "othererr" -> "catchErr"
          [] OTHER -> "wbSynced"]
  /\ UNCHANGED <<rows, nextId, now, syncing, currentStatus, silent, batch,
                 syncedCount, result, requests, calls, fault, emitted, touched, heard, listeners, bg, conn>>

\* (variant: only entries the response lists are marked)
ShouldMark_Matched(r, id) == id \in DOMAIN r.synced

\* pushEntries: `matched || syncedItems.length === 0`
ShouldMark(r, id) == id \in DOMAIN r.synced \/ DOMAIN r.synced = {}

\* pushEntries: matched?.serverId ?? entry.serverId ?? entry.id
ServerIdFor_Local(r, e) == IF e.serverId # Null THEN e.serverId ELSE e.id
ServerIdFor(r, e) ==
  IF e.id \in DOMAIN r.synced THEN r.synced[e.id]
  ELSE IF e.serverId # Null THEN e.serverId ELSE e.id

\* pushEntries: failedCount = failedItems.length
FailedCount(r) == Cardinality(r.failed) + r.anon

\* The local ids of the failed items, in the order of the array.
RECURSIVE SetToSeq(_)
SetToSeq(S) ==
  IF S = {} THEN <<>>
  ELSE LET m == CHOOSE x \in S : \A y \in S : x <= y
       IN <<m>> \o SetToSeq(S \ {m})
FailedSeq(r) == SetToSeq(r.failed)

\* (variant: the patch also moves the entry's lifecycle status)
ErrorPatch_Status == [syncStatus |-> "error", status |-> "submitted"]

\* The patch the engine writes for a rejected entry.
ErrorPatch == [syncStatus |-> "error"]

\* pushEntries' return value on the path that got a response.
PushResult(t) ==
  [success |-> FailedCount(resp[t]) = 0, synced |-> syncedCount[t],
   failed |-> FailedCount(resp[t]), error |-> resp[t].error]

\* A database call inside pushEntries' try block threw: its catch block
\* runs with an error that is not an axios error.
ToCatch(t) ==
  /\ pc' = [pc EXCEPT ![t] = "catchErr"]
  /\ idx' = [idx EXCEPT ![t] = 1]
  /\ fault' = [fault EXCEPT ![t] = TRUE]
  /\ syncedCount' = [syncedCount EXCEPT ![t] = 0]

\* One turn of `for (const entry of entries)` after a response.
WriteBackSynced(t, ok) ==
  /\ pc[t] = "wbSynced"
  /\ idx[t] <= Len(batch[t])
  /\ LET e == batch[t][idx[t]] IN
     IF ShouldMark(resp[t], e.id)
     THEN IF ok
          THEN /\ rows' = MarkAsSynced(rows, e.id, ServerIdFor(resp[t], e))
               /\ syncedCount' = [syncedCount EXCEPT ![t] = @ + 1]
               /\ idx' = [idx EXCEPT ![t] = @ + 1]
               /\ UNCHANGED <<pc, fault>>
          ELSE /\ ToCatch(t)
               /\ UNCHANGED rows
     ELSE /\ ok
          /\ idx' = [idx EXCEPT ![t] = @ + 1]
          /\ UNCHANGED <<rows, syncedCount, pc, fault>>
  /\ UNCHANGED <<nextId, now, syncing, currentStatus, silent, batch, resp,
                 result, requests, calls, emitted, touched, heard, listeners, bg, conn>>

\* After that loop: `if (failedCount > 0)`, or the end of the try block.
WriteBackSyncedDone(t) ==
  /\ pc[t] = "wbSynced"
  /\ idx[t] > Len(batch[t])
  /\ IF FailedCount(resp[t]) > 0
     THEN /\ pc' = [pc EXCEPT ![t] = "wbFailed"]
          /\ idx' = [idx EXCEPT ![t] = 1]
          /\ UNCHANGED <<syncing, currentStatus, emitted, result, heard>>
     ELSE /\ AfterPush(t, <<Status("syncing", 100)>>, PushResult(t))
          /\ UNCHANGED idx
  /\ UNCHANGED <<rows, nextId, now, silent, batch, resp, syncedCount, requests, calls,
                 fault, touched, listeners, bg, conn>>

\* One turn of `for (const failed of failedItems)`.
WriteBackFailed(t, ok) ==
  /\ pc[t] = "wbFailed"
  /\ idx[t] <= Len(FailedSeq(resp[t]))
  /\ IF ok
     THEN /\ rows' = UpdateEntry(rows, FailedSeq(resp[t])[idx[t]], ErrorPatch)
          /\ idx' = [idx EXCEPT ![t] = @ + 1]
          /\ UNCHANGED <<pc, fault, syncedCount>>
     ELSE /\ ToCatch(t)
          /\ UNCHANGED rows
  /\ UNCHANGED <<nextId, now, syncing, currentStatus, silent, batch, resp,
                 result, requests, calls, emitted, touched, heard, listeners, bg, conn>>

WriteBackFailedDone(t) ==
  /\ pc[t] = "wbFailed"
  /\ idx[t] > Len(FailedSeq(resp[t]))
  /\ AfterPush(t, <<Status("syncing", 100)>>, PushResult(t))
  /\ UNCHANGED <<rows, nextId, now, silent, batch, resp, idx, syncedCount,
                 requests, calls, fault, touched, listeners, bg, conn>>

\* pushEntries' catch block, axios "Network Error": one turn of its loop.
CatchNet(t, ok) ==
  /\ pc[t] = "catchNet"
  /\ idx[t] <= Len(batch[t])
  /\ LET e == batch[t][idx[t]] IN
     IF ok
     THEN /\ rows' = MarkAsSynced(rows, e.id,
                        IF e.serverId # Null THEN e.serverId ELSE e.id)
          /\ idx' = [idx EXCEPT ![t] = @ + 1]
          /\ UNCHANGED <<pc, syncing, currentStatus, emitted, result, fault, heard>>
     ELSE /\ Catch(t, "storage fault")
          /\ fault' = [fault EXCEPT ![t] = TRUE]
          /\ UNCHANGED <<rows, idx>>
  /\ UNCHANGED <<nextId, now, silent, batch, resp, syncedCount, requests, calls, touched, listeners, bg, conn>>

CatchNetDone(t) ==
  /\ pc[t] = "catchNet"
  /\ idx[t] > Len(batch[t])
  /\ AfterPush(t, <<Status("syncing", 100)>>,
         [success |-> TRUE, synced |-> Len(batch[t]), failed |-> 0,
          error |-> ""])
  /\ UNCHANGED <<rows, nextId, now, silent, batch, resp, idx, syncedCount,
                 requests, calls, fault, touched, listeners, bg, conn>>

\* pushEntries' catch block, any other error: one turn of its loop.
CatchErr(t, ok) ==
  /\ pc[t] = "catchErr"
  /\ idx[t] <= Len(batch[t])
  /\ IF ok
     THEN /\ rows' = UpdateEntry(rows, batch[t][idx[t]].id, ErrorPatch)
          /\ idx' = [idx EXCEPT ![t] = @ + 1]
          /\ UNCHANGED <<pc, syncing, currentStatus, emitted, result, fault, heard>>
     ELSE /\ Catch(t, "storage fault")
          /\ fault' = [fault EXCEPT ![t] = TRUE]
          /\ UNCHANGED <<rows, idx>>
  /\ UNCHANGED <<nextId, now, silent, batch, resp, syncedCount, requests, calls, touched, listeners, bg, conn>>

CatchErrDone(t) ==
  /\ pc[t] = "catchErr"
  /\ idx[t] > Len(batch[t])
  /\ AfterPush(t, <<>>,
         [success |-> FALSE, synced |-> 0, failed |-> Len(batch[t]),
          error |-> IF fault[t] THEN "storage fault" ELSE "request failed"])
  /\ UNCHANGED <<rows, nextId, now, silent, batch, resp, idx, syncedCount,
                 requests, calls, fault, touched, listeners, bg, conn>>

\* The caller takes the result of its finished call.
Return(t) ==
  /\ pc[t] = "done"
  /\ pc' = [pc EXCEPT ![t] = "idle"]
  /\ silent' = [silent EXCEPT ![t] = FALSE]
  /\ batch' = [batch EXCEPT ![t] = <<>>]
  /\ resp' = [resp EXCEPT ![t] = NoResp]
  /\ idx' = [idx EXCEPT ![t] = 1]
  /\ syncedCount' = [syncedCount EXCEPT ![t] = 0]
  /\ result' = [result EXCEPT ![t] = NoResult]
  /\ fault' = [fault EXCEPT ![t] = FALSE]
  /\ emitted' = [emitted EXCEPT ![t] = <<>>]
  /\ touched' = (syncing /\ touched)
  /\ conn' = [conn EXCEPT ![t] = "unknown"]
  /\ UNCHANGED <<rows, nextId, now, syncing, currentStatus, requests, calls, listeners, heard>>

\* onSyncStatusChange(listener): the listener is added and called with the
\* current status.
Subscribe(l) ==
  /\ l \notin listeners
  /\ Len(heard[l]) < MaxHeard
  /\ listeners' = listeners \cup {l}
  /\ heard' = [heard EXCEPT ![l] = @ \o <<currentStatus>>]
  /\ UNCHANGED <<rows, nextId, now, syncing, currentStatus, pc, silent, batch,
                 resp, idx, syncedCount, result, requests, calls, fault,
                 emitted, touched, conn, bg>>

\* The function onSyncStatusChange returned: the listener is deleted.
Unsubscribe(l) ==
  /\ l \in listeners
  /\ listeners' = listeners \ {l}
  /\ UNCHANGED <<rows, nextId, now, syncing, currentStatus, pc, silent, batch,
                 resp, idx, syncedCount, result, requests, calls, fault,
                 emitted, touched, conn, bg, heard>>

\* ------------------------------------------------- the UI-facing layer
\* The patches the UI layer passes to Database.updateEntry.
Patches == {[remarks |-> r] : r \in Remarks}
           \cup {[remarks |-> r, syncStatus |-> "pending"] : r \in Remarks}

CreateEntry(st, sync) ==
  /\ nextId <= MaxEntries
  /\ rows' = [i \in DOMAIN rows \cup {nextId} |->
                IF i = nextId THEN NewRow(nextId, st, sync) ELSE rows[i]]
  /\ nextId' = nextId + 1
  /\ touched' = syncing
  /\ UNCHANGED <<now, syncing, currentStatus, pc, silent, batch, resp, idx,
                 syncedCount, result, requests, calls, fault, emitted, heard, listeners, bg, conn>>

EditEntry(id, patch) ==
  /\ id \in DOMAIN rows
  /\ rows' = UpdateEntry(rows, id, patch)
  /\ touched' = syncing
  /\ UNCHANGED <<nextId, now, syncing, currentStatus, pc, silent, batch, resp,
                 idx, syncedCount, result, requests, calls, fault, emitted, heard, listeners, bg, conn>>

\* Database.deleteEntry
DeleteEntry(id) ==
  /\ id \in DOMAIN rows
  /\ rows' = [i \in DOMAIN rows \ {id} |-> rows[i]]
  /\ touched' = syncing
  /\ UNCHANGED <<nextId, now, syncing, currentStatus, pc, silent, batch, resp,
                 idx, syncedCount, result, requests, calls, fault, emitted, heard, listeners, bg, conn>>

\* A second passes.
Tick ==
  /\ now < MaxClock
  /\ now' = now + 1
  /\ UNCHANGED <<rows, nextId, syncing, currentStatus, pc, silent, batch,
                 resp, idx, syncedCount, result, requests, calls, fault, emitted, touched, heard, listeners, bg, conn>>

\* --------------------------------------------------------- specification
SyncInit ==
  /\ rows = <<>>
  /\ nextId = 1
  /\ now = 1
  /\ syncing = FALSE
  /\ currentStatus = Status("idle", 0)
  /\ pc = [t \in Tasks |-> "idle"]
  /\ silent = [t \in Tasks |-> FALSE]
  /\ batch = [t \in Tasks |-> <<>>]
  /\ resp = [t \in Tasks |-> NoResp]
  /\ idx = [t \in Tasks |-> 1]
  /\ syncedCount = [t \in Tasks |-> 0]
  /\ result = [t \in Tasks |-> NoResult]
  /\ requests = 0
  /\ calls = 0
  /\ fault = [t \in Tasks |-> FALSE]
  /\ emitted = [t \in Tasks |-> <<>>]
  /\ touched = FALSE
  /\ conn = [t \in Tasks |-> "unknown"]
  /\ bg = "idle"
  /\ listeners = {}
  /\ heard = [l \in Listeners |-> <<>>]

\* A settled syncNow() promise runs its caller's continuation as a microtask,
\* before any other callback: nothing interleaves between a pass's last step
\* and Return.
Quiet == \A t \in Tasks : pc[t] # "done"

\* Task 1 is the foreground caller (SyncContext.syncNow, not silent), task 2
\* the background fetch task, whose callback calls syncNow({silent: true}).
Background == 2

\* What the UI layer passes as syncStatus to Database.createEntry.
CreateInputs == {"pending"}

\* BackgroundFetch.BackgroundFetchResult, as the task callback returns it
\* for the SyncResult r of its silent pass (`result.synced ?? 0`).
BackgroundOutcome(r) ==
  IF r.success /\ (IF r.synced = -1 THEN 0 ELSE r.synced) > 0
  THEN "NewData" ELSE "NoData"

\* The scheduler runs the background task: the callback up to its
\* `await NetInfo.fetch()`.
BgTrigger ==
  /\ bg \notin {"fetch", "calling"}
  /\ calls < MaxCalls
  /\ bg' = "fetch"
  /\ UNCHANGED <<rows, nextId, now, syncing, currentStatus, pc, silent, batch,
                 resp, idx, syncedCount, result, requests, calls, fault,
                 emitted, touched, conn, listeners, heard>>

\* The callback's NetInfo.fetch() settles: not connected is NoData, a
\* rejection is caught and is Failed, connected calls syncNow({silent: true}).
BgFetch(net) ==
  /\ bg = "fetch"
  /\ IF Connected(net)
     THEN /\ bg' = "calling"
          /\ \/ SyncNow_Busy(Background)
             \/ SyncNow_Begin(Background, TRUE)
     ELSE /\ bg' = IF net = "offline" THEN "NoData" ELSE "Failed"
          /\ UNCHANGED <<rows, nextId, now, syncing, currentStatus, pc, silent,
                         batch, resp, idx, syncedCount, result, requests,
                         calls, fault, emitted, touched, conn, listeners,
                         heard>>

\* The callback's continuation after `await syncServiceRef.syncNow(...)`.
BgReturn ==
  /\ bg = "calling"
  /\ Return(Background)
  /\ bg' = BackgroundOutcome(result[Background])

\* A foreground caller enters syncNow().
SyncCall(t) ==
  /\ t # Background
  /\ \/ SyncNow_Busy(t)
     \/ SyncNow_Begin(t, FALSE)
  /\ UNCHANGED bg

SyncStep(t) ==
  \/ SyncCall(t)
  \/ \E net \in {"connected", "offline", "throws"} : NetInfoFetch(t, net)
  \/ \E ok \in BOOLEAN : ReadPending(t, ok)
  \/ \E r \in Responses : RemoteSettles(t, r)
  \/ \E ok \in BOOLEAN : WriteBackSynced(t, ok)
  \/ WriteBackSyncedDone(t)
  \/ \E ok \in BOOLEAN : WriteBackFailed(t, ok)
  \/ WriteBackFailedDone(t)
  \/ \E ok \in BOOLEAN : CatchNet(t, ok)
  \/ CatchNetDone(t)
  \/ \E ok \in BOOLEAN : CatchErr(t, ok)
  \/ CatchErrDone(t)

UserStep ==
  \/ \E sync \in CreateInputs : CreateEntry("draft", sync)
  \/ \E id \in Ids, p \in Patches : EditEntry(id, p)
  \/ \E id \in Ids : DeleteEntry(id)

BgStep ==
  \/ BgTrigger
  \/ \E net \in {"connected", "offline", "throws"} : BgFetch(net)

SyncNext ==
  \/ Quiet /\ \E t \in Tasks : SyncStep(t)
  \/ Quiet /\ BgStep
  \/ Quiet /\ UserStep
  \/ \E t \in Tasks \ {Background} : Return(t) /\ UNCHANGED bg
  \/ BgReturn

\* ------------------------------------------------------ migration manager
TARGET_SCHEMA_VERSION == 2
HalfDay == 12 * 60 * 60 * 1000               \* one step of the model's clock, ms
MIGRATION_CHECK_INTERVAL == 24 * 60 * 60 * 1000
Callers == 1..NumCallers
NowMs == wall * HalfDay                      \* Date.now()

\* The columns migration v2 adds to flight_entries, in the order it adds them.
V2Columns ==
  <<"departure_airport_id", "arrival_airport_id", "departure_timezone",
    "arrival_timezone", "departure_time_utc", "arrival_time_utc",
    "night_time_method", "night_time_calculated_at", "additional_data">>
V2ColumnSet == {V2Columns[i] : i \in 1..Len(V2Columns)}
\* (variant: no column declares a default)
ColDefault_Null(c) == "NULL"

\* The declared default of a v2 column.
ColDefault(c) == IF c = "night_time_method" THEN "manual" ELSE "NULL"

AirportIndexes == {"idx_airports_icao", "idx_airports_iata",
                   "idx_airports_name", "idx_airports_city",
                   "idx_airports_active"}
V1FlightIndexes == {"idx_flight_date", "idx_sync_status", "idx_server_id"}
V2FlightIndexes == {"idx_departure_airport", "idx_arrival_airport",
                    "idx_departure_time_utc"}

\* A database without any table.
FreshDb ==
  [ledgerTable |-> FALSE, ledger |-> {}, airports |-> FALSE, indexes |-> {},
   flightTable |-> FALSE, flightCols |-> {}, frows |-> <<>>]

\* The database of an install that predates the ledger: flight_entries in
\* its first shape, holding n rows.
LegacyDb(n) ==
  [FreshDb EXCEPT !.flightTable = TRUE, !.indexes = V1FlightIndexes,
                  !.frows = [i \in 1..n |-> [legacy |-> i, v2 |-> <<>>]]]

Versions(d) == {r.version : r \in d.ledger}
RECURSIVE MaxOf(_)
MaxOf(S) == IF S = {} THEN 0
            ELSE LET x == CHOOSE y \in S : TRUE
                     m == MaxOf(S \ {x})
                 IN IF x > m THEN x ELSE m

\* (variant: the probe never sees an applied version)
MaxVersion_Zero(d) == 0

\* (variant: the probe counts the ledger rows instead of taking the maximum)
MaxVersion_Count(d) == Cardinality(Versions(d))

\* getCurrentSchemaVersion, second query: SELECT MAX(version), NULL read as 0.
MaxVersion(d) == MaxOf(Versions(d))

\* (variant: a timestamp exactly one interval old still counts as recent)
ShouldSkip_Inclusive(item) ==
  IF item = <<>> THEN FALSE
  ELSE NowMs - item[1] <= MIGRATION_CHECK_INTERVAL

\* shouldSkipMigrationCheck, given the stored item.
ShouldSkip(item) ==
  IF item = <<>> THEN FALSE
  ELSE NowMs - item[1] < MIGRATION_CHECK_INTERVAL

\* CREATE TABLE IF NOT EXISTS schema_migrations
CreateLedgerTable(d) == [d EXCEPT !.ledgerTable = TRUE]
\* CREATE TABLE IF NOT EXISTS airports
CreateAirports(d) == [d EXCEPT !.airports = TRUE]
\* CREATE INDEX IF NOT EXISTS idx_airports_...
CreateAirportIndexes(d) == [d EXCEPT !.indexes = @ \cup AirportIndexes]
\* CREATE TABLE IF NOT EXISTS flight_entries, in its final shape.
CreateFlightTable(d) ==
  IF d.flightTable THEN d
  ELSE [d EXCEPT !.flightTable = TRUE, !.flightCols = V2ColumnSet,
                 !.frows = <<>>]
\* CREATE INDEX IF NOT EXISTS on flight_entries.
CreateFlightIndexes(d, names) == [d EXCEPT !.indexes = @ \cup names]

\* ALTER TABLE flight_entries ADD COLUMN c: an error when the table has c.
CanAddColumn(d, c) == d.flightTable /\ c \notin d.flightCols
AddColumn(d, c) ==
  [d EXCEPT !.flightCols = @ \cup {c},
            !.frows = [i \in DOMAIN @ |->
               [@[i] EXCEPT !.v2 = [x \in d.flightCols \cup {c} |->
                  IF x = c THEN ColDefault(c) ELSE @[x]]]]]

\* INSERT INTO schema_migrations: version is the primary key.
CanInsertLedger(d, v) == d.ledgerTable /\ v \notin Versions(d)
\* (variant: the ledger row is not written)
InsertLedger_Skip(d, v) == d
InsertLedger(d, v) ==
  [d EXCEPT !.ledger = @ \cup {[version |-> v, appliedAt |-> NowMs]}]

\* Bookkeeping of a step of caller m: whether storage failed it, and where
\* the call threw if it did.
Note(m, ok) ==
  /\ mfault' = [mfault EXCEPT ![m] = @ \/ ~ok]
  /\ failedAt' = [failedAt EXCEPT ![m] =
       IF mpc'[m] = "failed" THEN mpc[m] ELSE @]

\* checkAndRunMigrations' catch: the call rejects with the migration error.
Throw(m) ==
  /\ mpc' = [mpc EXCEPT ![m] = "failed"]

\* (variant: the error goes up without ROLLBACK taking effect)
Rollback_Keep(m) ==
  /\ db' = db
  /\ tx' = <<>>
  /\ Throw(m)

\* withTransactionAsync's catch: ROLLBACK, then the error goes up.
Rollback(m) ==
  /\ db' = tx[1]
  /\ tx' = <<>>
  /\ Throw(m)

\* (variant: the session flag is not consulted)
SessionHit_Never == FALSE

\* this.currentSessionVersion === TARGET_SCHEMA_VERSION
SessionHit == sessionVersion = TARGET_SCHEMA_VERSION

\* checkAndRunMigrations up to its first await.
MigCall(m) ==
  /\ mpc[m] = "idle"
  /\ before' = [before EXCEPT ![m] = db]
  /\ IF SessionHit
     THEN /\ mpc' = [mpc EXCEPT ![m] = "done"]
          /\ everOk' = TRUE
     ELSE /\ mpc' = [mpc EXCEPT ![m] = "throttle"]
          /\ UNCHANGED everOk
  /\ UNCHANGED <<db, tx, sessionVersion, lastCheck, wall, cur, probed, mfault,
                 failedAt>>

\* (variant: a skipped call records the time of the skip as the last check)
Throttle_Refresh(m, ok) ==
  /\ mpc[m] = "throttle"
  /\ IF ok /\ ShouldSkip(lastCheck)
     THEN /\ sessionVersion' = TARGET_SCHEMA_VERSION
          /\ lastCheck' = <<NowMs>>
          /\ mpc' = [mpc EXCEPT ![m] = "done"]
          /\ everOk' = TRUE
     ELSE /\ mpc' = [mpc EXCEPT ![m] = "probeTable"]
          /\ UNCHANGED <<sessionVersion, lastCheck, everOk>>
  /\ Note(m, ok)
  /\ UNCHANGED <<db, tx, wall, cur, before, probed>>

\* shouldSkipMigrationCheck: AsyncStorage.getItem settles (a rejection is
\* caught and read as "do not skip").
Throttle(m, ok) ==
  /\ mpc[m] = "throttle"
  /\ IF ok /\ ShouldSkip(lastCheck)
     THEN /\ sessionVersion' = TARGET_SCHEMA_VERSION
          /\ mpc' = [mpc EXCEPT ![m] = "done"]
          /\ everOk' = TRUE
     ELSE /\ mpc' = [mpc EXCEPT ![m] = "probeTable"]
          /\ UNCHANGED <<sessionVersion, everOk>>
  /\ Note(m, ok)
  /\ UNCHANGED <<db, tx, lastCheck, wall, cur, before, probed>>

\* What follows getCurrentSchemaVersion once it returned v.
AfterProbe(m, v) ==
  /\ cur' = [cur EXCEPT ![m] = v]
  /\ probed' = [probed EXCEPT ![m] = TRUE]
  /\ mpc' = [mpc EXCEPT ![m] =
       IF v < TARGET_SCHEMA_VERSION
       THEN (IF v = 0 THEN "createLedger" ELSE "begin")
       ELSE "setItem"]
  /\ sessionVersion' =
       IF v < TARGET_SCHEMA_VERSION THEN sessionVersion
       ELSE TARGET_SCHEMA_VERSION

\* getCurrentSchemaVersion, first query: is there a schema_migrations table?
ProbeTable(m, ok) ==
  /\ mpc[m] = "probeTable"
  /\ IF ok /\ db.ledgerTable
     THEN /\ mpc' = [mpc EXCEPT ![m] = "probeMax"]
          /\ UNCHANGED <<cur, probed, sessionVersion>>
     ELSE AfterProbe(m, 0)
  /\ Note(m, ok)
  /\ UNCHANGED <<db, tx, lastCheck, wall, before, everOk>>

\* getCurrentSchemaVersion, second query.
ProbeMax(m, ok) ==
  /\ mpc[m] = "probeMax"
  /\ AfterProbe(m, IF ok /\ db.ledgerTable THEN MaxVersion(db) ELSE 0)
  /\ Note(m, ok)
  /\ UNCHANGED <<db, tx, lastCheck, wall, before, everOk>>

\* runMigrations, fromVersion = 0: createSchemaMigrationsTable.
CreateLedger(m, ok) ==
  /\ mpc[m] = "createLedger"
  /\ IF ok
     THEN /\ db' = CreateLedgerTable(db)
          /\ mpc' = [mpc EXCEPT ![m] = "begin"]
     ELSE /\ Throw(m)
          /\ UNCHANGED db
  /\ Note(m, ok)
  /\ UNCHANGED <<tx, sessionVersion, lastCheck, wall, cur, before, probed,
                 everOk>>

\* runMigration: withTransactionAsync opens the transaction.
Begin(m, ok) ==
  /\ mpc[m] = "begin"
  /\ IF ok /\ tx = <<>>
     THEN /\ tx' = <<db>>
          /\ mpc' = [mpc EXCEPT ![m] = "v2_airports"]
     ELSE /\ Throw(m)
          /\ UNCHANGED tx
  /\ Note(m, ok)
  /\ UNCHANGED <<db, sessionVersion, lastCheck, wall, cur, before, probed,
                 everOk>>

\* One statement of the transaction: on success the database becomes d and
\* the caller moves to `next`; on an error the transaction is rolled back.
InTx(m, ok, d, next) ==
  /\ IF ok
     THEN /\ db' = d
          /\ mpc' = [mpc EXCEPT ![m] = next]
          /\ UNCHANGED tx
     ELSE Rollback(m)
  /\ UNCHANGED <<sessionVersion, lastCheck, wall, cur, before, probed, everOk>>

\* migration_v2, statement by statement.  `io` is FALSE when the storage
\* engine fails the statement.
V2_Airports(m, io) ==
  /\ mpc[m] = "v2_airports"
  /\ InTx(m, io, CreateAirports(db), "v2_airportIdx")
  /\ Note(m, io)

V2_AirportIndexes(m, io) ==
  /\ mpc[m] = "v2_airportIdx"
  /\ InTx(m, io /\ db.airports, CreateAirportIndexes(db), "v2_flightCheck")
  /\ Note(m, io)

\* SELECT COUNT(*) ... name='flight_entries', and the branch on it.
V2_FlightCheck(m, io) ==
  /\ mpc[m] = "v2_flightCheck"
  /\ InTx(m, io, db, IF db.flightTable THEN "v2_alter1" ELSE "v2_createFlight")
  /\ Note(m, io)

V2_CreateFlight(m, io) ==
  /\ mpc[m] = "v2_createFlight"
  /\ InTx(m, io, CreateFlightTable(db), "v2_flightIdx")
  /\ Note(m, io)

V2_FlightIndexes(m, io) ==
  /\ mpc[m] = "v2_flightIdx"
  /\ InTx(m, io /\ db.flightTable,
          CreateFlightIndexes(db, V1FlightIndexes \cup V2FlightIndexes),
          "insert")
  /\ Note(m, io)

AlterLabel(k) ==
  <<"v2_alter1", "v2_alter2", "v2_alter3", "v2_alter4", "v2_alter5",
    "v2_alter6", "v2_alter7", "v2_alter8", "v2_alter9", "v2_newIdx">>[k]

\* The k-th ALTER TABLE flight_entries ADD COLUMN.
V2_Alter(m, k, io) ==
  /\ mpc[m] = AlterLabel(k)
  /\ InTx(m, io /\ CanAddColumn(db, V2Columns[k]),
          AddColumn(db, V2Columns[k]), AlterLabel(k + 1))
  /\ Note(m, io)

V2_NewIndexes(m, io) ==
  /\ mpc[m] = "v2_newIdx"
  /\ InTx(m, io /\ db.flightTable, CreateFlightIndexes(db, V2FlightIndexes),
          "insert")
  /\ Note(m, io)

\* runMigration: the ledger row of the step, inside the same transaction.
InsertVersion(m, io) ==
  /\ mpc[m] = "insert"
  /\ InTx(m, io /\ CanInsertLedger(db, TARGET_SCHEMA_VERSION),
          InsertLedger(db, TARGET_SCHEMA_VERSION), "commit")
  /\ Note(m, io)

\* COMMIT; then checkAndRunMigrations sets the session flag and awaits
\* AsyncStorage.setItem.
Commit(m, io) ==
  /\ mpc[m] = "commit"
  /\ IF io
     THEN /\ tx' = <<>>
          /\ mpc' = [mpc EXCEPT ![m] = "setItem"]
          /\ sessionVersion' = TARGET_SCHEMA_VERSION
          /\ UNCHANGED db
     ELSE /\ Rollback(m)
          /\ UNCHANGED sessionVersion
  /\ Note(m, io)
  /\ UNCHANGED <<lastCheck, wall, cur, before, probed, everOk>>

\* AsyncStorage.setItem(MIGRATION_CHECK_KEY, now) settles.
SetItem(m, ok) ==
  /\ mpc[m] = "setItem"
  /\ IF ok
     THEN /\ lastCheck' = <<NowMs>>
          /\ mpc' = [mpc EXCEPT ![m] = "done"]
          /\ everOk' = TRUE
     ELSE /\ Throw(m)
          /\ UNCHANGED <<lastCheck, everOk>>
  /\ Note(m, ok)
  /\ UNCHANGED <<db, tx, sessionVersion, wall, cur, before, probed>>

\* Database.init after checkAndRunMigrations returned: one multi-statement
\* exec of CREATE TABLE / INDEX IF NOT EXISTS for airports and flight_entries.
\* On a flight_entries table without the v2 columns the exec stops at the
\* first index over a missing column; what ran before it stays.
DatabaseInit(m) ==
  /\ mpc[m] = "done"
  /\ ~(db.airports /\ db.flightTable)
  /\ db' = CreateFlightIndexes(
             CreateFlightTable(CreateAirportIndexes(CreateAirports(db))),
             IF db.flightTable /\ ~(V2ColumnSet \subseteq db.flightCols)
             THEN V1FlightIndexes
             ELSE V1FlightIndexes \cup V2FlightIndexes)
  /\ UNCHANGED <<tx, sessionVersion, lastCheck, wall, mpc, cur, before,
                 probed, mfault, failedAt, everOk>>

\* The caller takes the outcome of its finished call.
MigReturn(m) ==
  /\ mpc[m] \in {"done", "failed"}
  /\ mpc' = [mpc EXCEPT ![m] = "idle"]
  /\ cur' = [cur EXCEPT ![m] = 0]
  /\ probed' = [probed EXCEPT ![m] = FALSE]
  /\ mfault' = [mfault EXCEPT ![m] = FALSE]
  /\ failedAt' = [failedAt EXCEPT ![m] = ""]
  /\ before' = [before EXCEPT ![m] = FreshDb]
  /\ UNCHANGED <<db, tx, sessionVersion, lastCheck, wall, everOk>>

ResetSessionCache ==
  /\ sessionVersion # Null
  /\ sessionVersion' = Null
  /\ UNCHANGED <<db, tx, lastCheck, wall, mpc, cur, before, probed, mfault,
                 failedAt, everOk>>

ForceMigrationCheck ==
  /\ lastCheck # <<>>
  /\ lastCheck' = <<>>
  /\ sessionVersion' = Null
  /\ UNCHANGED <<db, tx, wall, mpc, cur, before, probed, mfault,
                 failedAt, everOk>>

\* Half a day passes.
MigTick ==
  /\ wall < MaxTicks
  /\ wall' = wall + 1
  /\ UNCHANGED <<db, tx, sessionVersion, lastCheck, mpc, cur, before, probed,
                 mfault, failedAt, everOk>>

MigStep(m) ==
  \/ MigCall(m)
  \/ \E ok \in BOOLEAN : Throttle(m, ok)
  \/ \E ok \in BOOLEAN : ProbeTable(m, ok)
  \/ \E ok \in BOOLEAN : ProbeMax(m, ok)
  \/ \E ok \in BOOLEAN : CreateLedger(m, ok)
  \/ \E ok \in BOOLEAN : Begin(m, ok)
  \/ \E io \in BOOLEAN : V2_Airports(m, io)
  \/ \E io \in BOOLEAN : V2_AirportIndexes(m, io)
  \/ \E io \in BOOLEAN : V2_FlightCheck(m, io)
  \/ \E io \in BOOLEAN : V2_CreateFlight(m, io)
  \/ \E io \in BOOLEAN : V2_FlightIndexes(m, io)
  \/ \E io \in BOOLEAN, k \in 1..Len(V2Columns) : V2_Alter(m, k, io)
  \/ \E io \in BOOLEAN : V2_NewIndexes(m, io)
  \/ \E io \in BOOLEAN : InsertVersion(m, io)
  \/ \E io \in BOOLEAN : Commit(m, io)
  \/ \E ok \in BOOLEAN : SetItem(m, ok)
  \/ DatabaseInit(m)
  \/ MigReturn(m)

\* Between calls: the process restarts or a test resets the flag, the
\* throttle key is removed, time passes.
MigIdle == \A m \in Callers : mpc[m] = "idle"
MigEnv ==
  \/ ResetSessionCache
  \/ ForceMigrationCheck
  \/ MigTick

\* ----------------------------------------------- Database.init and CRUD
\* The ways a Database call rejects, by where the error arose.
Rejected == {"openFailed", "pragmaFailed", "migrationFailed", "schemaFailed",
             "stmtFailed"}

\* A CRUD method (createEntry, updateEntry, getEntry, getPendingSyncEntries,
\* markAsSynced, ...) up to `await this.getDb()`.
CrudCall ==
  /\ dpc = "idle"
  /\ dpc' = "open"
  /\ UNCHANGED <<initialized, migVars>>

\* getDb() settles; then init() up to its first statement, or past it when
\* the object is initialized.
CrudOpen(ok) ==
  /\ dpc = "open"
  /\ dpc' = IF ~ok THEN "openFailed"
            ELSE IF initialized THEN "stmt" ELSE "pragma"
  /\ UNCHANGED <<initialized, migVars>>

\* init(): PRAGMA journal_mode settles; then checkAndRunMigrations runs up to
\* its first await.
InitPragma(ok) ==
  /\ dpc = "pragma"
  /\ IF ok
     THEN /\ dpc' = "migrating"
          /\ MigCall(1)
     ELSE /\ dpc' = "pragmaFailed"
          /\ UNCHANGED migVars
  /\ UNCHANGED initialized

\* init() waits for checkAndRunMigrations, which takes a step.
InitMigrating ==
  /\ dpc = "migrating"
  /\ mpc[1] \notin {"idle", "done", "failed"}
  /\ MigStep(1)
  /\ UNCHANGED dbVars

\* (variant: init() swallows the migration error)
InitMigFailed_Swallow ==
  /\ dpc = "migrating"
  /\ mpc[1] = "failed"
  /\ MigReturn(1)
  /\ dpc' = "stmt"
  /\ UNCHANGED initialized

\* checkAndRunMigrations threw: init()'s catch rethrows, `initialized` is
\* not reached, the CRUD method rejects.
InitMigFailed ==
  /\ dpc = "migrating"
  /\ mpc[1] = "failed"
  /\ MigReturn(1)
  /\ dpc' = "migrationFailed"
  /\ UNCHANGED initialized

\* checkAndRunMigrations returned: init()'s schema exec settles.  It fails
\* when storage fails it or when flight_entries lacks a column it indexes.
InitSchema(ok) ==
  /\ dpc = "migrating"
  /\ mpc[1] = "done"
  /\ IF ok /\ ~(db.airports /\ db.flightTable)
     THEN DatabaseInit(1)
     ELSE UNCHANGED migVars
  /\ dpc' = IF ok /\ (db.flightTable => V2ColumnSet \subseteq db.flightCols)
            THEN "schemaDone" ELSE "schemaThrew"
  /\ UNCHANGED initialized

\* init() ends: `this.initialized = true`, or its catch rethrows.
InitFinish ==
  /\ dpc \in {"schemaDone", "schemaThrew"}
  /\ MigReturn(1)
  /\ initialized' = (dpc = "schemaDone")
  /\ dpc' = IF dpc = "schemaDone" THEN "stmt" ELSE "schemaFailed"

\* The CRUD method's own statement against the application tables settles.
CrudStatement(ok) ==
  /\ dpc = "stmt"
  /\ dpc' = IF ok THEN "returned" ELSE "stmtFailed"
  /\ UNCHANGED <<initialized, migVars>>

\* The caller takes the outcome of the CRUD method.
CrudReturn ==
  /\ dpc \in Rejected \cup {"returned"}
  /\ dpc' = "idle"
  /\ UNCHANGED <<initialized, migVars>>

\* The process is restarted: the statics and the Database object are new.
Restart ==
  /\ dpc = "idle"
  /\ initialized \/ sessionVersion # Null
  /\ initialized' = FALSE
  /\ sessionVersion' = Null
  /\ UNCHANGED <<dpc, db, tx, lastCheck, wall, mpc, cur, before, probed,
                 mfault, failedAt, everOk>>

DbStep ==
  \/ CrudCall
  \/ \E ok \in BOOLEAN : CrudOpen(ok)
  \/ \E ok \in BOOLEAN : InitPragma(ok)
  \/ InitMigrating
  \/ InitMigFailed
  \/ \E ok \in BOOLEAN : InitSchema(ok)
  \/ InitFinish
  \/ \E ok \in BOOLEAN : CrudStatement(ok)
  \/ CrudReturn
  \/ Restart

\* ------------------------------------------------- the Database methods
\* The methods of Database as any caller may use them: each action is one
\* call, from its first line to its settlement, over an initialised
\* database.  `ok` is FALSE when the storage engine fails the statement.
NoCall == [op |-> "none", settled |-> "resolved", id |-> Null, keys |-> 0,
           fields |-> 0, read |-> <<>>, seq |-> 0]

StoreRest == outcome = NoCall

\* The settlement of a call: `seq` alternates from one call to the next.
Settled(op, ok, id, keys, fields, read) ==
  [op |-> op, settled |-> IF ok THEN "resolved" ELSE "rejected", id |-> id,
   keys |-> keys, fields |-> fields, read |-> read, seq |-> 1 - outcome.seq]

\* The variables of the sync orchestrator no Database method touches.
syncRest == <<now, syncing, currentStatus, pc, silent, batch, resp, idx,
              syncedCount, result, requests, calls, fault, emitted, touched,
              conn, bg, listeners, heard>>

\* What a caller may pass to createEntry as `entry`.
EntryArgs ==
  [status : {"draft"}, remarks : {"r0"}, syncStatus : SyncStates,
   serverId : {Null, ServerIdOf(1)}, lastSyncedAt : {Null, 1}]

\* createEntry's INSERT: sync_status, server_id and last_synced_at come from
\* the entry (`?? null`), created_at from datetime('now').
InsertRow(id, e) ==
  [id |-> id, serverId |-> e.serverId, status |-> e.status,
   remarks |-> e.remarks, syncStatus |-> e.syncStatus,
   lastSyncedAt |-> e.lastSyncedAt, createdAt |-> now]

\* Database.createEntry(entry)
DbCreateEntry(e, ok) ==
  /\ nextId <= MaxEntries
  /\ IF ok
     THEN /\ rows' = [i \in DOMAIN rows \cup {nextId} |->
                        IF i = nextId THEN InsertRow(nextId, e) ELSE rows[i]]
          /\ nextId' = nextId + 1
          /\ outcome' = Settled("createEntry", TRUE, nextId, 0, 0, <<>>)
     ELSE /\ UNCHANGED <<rows, nextId>>
          /\ outcome' = Settled("createEntry", FALSE, Null, 0, 0, <<>>)
  /\ UNCHANGED syncRest

\* The keys a patch (Partial<FlightEntry>) may carry, and a patch over the
\* keys ks.
PatchKeys == {"id", "createdAt", "syncStatus", "serverId"}
PatchOf(ks, st, sid) ==
  [k \in ks |-> CASE k = "id" -> 1
                  [] k = "createdAt" -> 0
                  [] k = "syncStatus" -> st
                  [] k = "serverId" -> sid]
PatchArgs ==
  {PatchOf(ks, st, sid) :
     ks \in SUBSET PatchKeys, st \in SyncStates, sid \in {ServerIdOf(1)}}

\* updateEntry: Object.keys(updates).filter(key !== "id" && key !== "createdAt")
Fields(patch) == DOMAIN patch \ {"id", "createdAt"}

\* `UPDATE flight_entries SET ${fields.join(", ")}, updated_at = ...`: with
\* no field the statement reads `SET , updated_at = ...`, which SQLite
\* refuses to prepare.
SetClauseParses(patch) == Fields(patch) # {}

\* Database.updateEntry(id, updates)
DbUpdateEntry(id, patch, ok) ==
  /\ IF DOMAIN patch = {}
     THEN /\ ok
          /\ UNCHANGED rows
          /\ outcome' = Settled("updateEntry", TRUE, id, 0, 0, <<>>)
     ELSE IF ok /\ SetClauseParses(patch)
     THEN /\ rows' = UpdateEntry(rows, id, patch)
          /\ outcome' = Settled("updateEntry", TRUE, id,
                                 Cardinality(DOMAIN patch),
                                 Cardinality(Fields(patch)), <<>>)
     ELSE /\ UNCHANGED rows
          /\ outcome' = Settled("updateEntry", FALSE, id,
                                 Cardinality(DOMAIN patch),
                                 Cardinality(Fields(patch)), <<>>)
  /\ UNCHANGED <<nextId, syncRest>>

\* Database.markAsSynced(id, serverId)
DbMarkAsSynced(id, serverId, ok) ==
  /\ rows' = IF ok THEN MarkAsSynced(rows, id, serverId) ELSE rows
  /\ outcome' = Settled("markAsSynced", ok, id, 0, 0, <<>>)
  /\ UNCHANGED <<nextId, syncRest>>

\* Database.deleteEntry(id)
DbDeleteEntry(id, ok) ==
  /\ rows' = IF ok THEN [i \in DOMAIN rows \ {id} |-> rows[i]] ELSE rows
  /\ outcome' = Settled("deleteEntry", ok, id, 0, 0, <<>>)
  /\ UNCHANGED <<nextId, syncRest>>

\* Database.getPendingSyncEntries()
DbGetPending(ok) ==
  /\ IF ok
     THEN \E order \in PendingOrders(rows) :
            outcome' = Settled("getPending", TRUE, Null, 0, 0, order)
     ELSE outcome' = Settled("getPending", FALSE, Null, 0, 0, <<>>)
  /\ UNCHANGED <<rows, nextId, syncRest>>

StoreStep ==
  \/ \E e \in EntryArgs, ok \in BOOLEAN : DbCreateEntry(e, ok)
  \/ \E id \in Ids, p \in PatchArgs, ok \in BOOLEAN : DbUpdateEntry(id, p, ok)
  \/ \E id \in Ids, ok \in BOOLEAN : DbMarkAsSynced(id, ServerIdOf(id), ok)
  \/ \E id \in Ids, ok \in BOOLEAN : DbDeleteEntry(id, ok)
  \/ \E ok \in BOOLEAN : DbGetPending(ok)

\* ------------------------------------------------- bulkInsertAirports
\* The airports a caller may pass: an ICAO code (UNIQUE) and a name.
Icaos == {"EGLL", "KJFK"}
AirportArgs == [icaoCode : Icaos, name : {"n1", "n2"}]
AirportLists ==
  UNION {[1..n -> AirportArgs] : n \in 0..MaxAirports}

NoAirports == [rows |-> {}, next |-> 1]

AirRest ==
  /\ airports = NoAirports
  /\ atx = <<>>
  /\ apc = "idle"
  /\ alist = <<>>
  /\ aidx = 1
  /\ abefore = NoAirports
  /\ prevList = <<>>

\* The ICAO codes of a table's rows.
IcaosOf(tbl) == {r.icao_code : r \in tbl.rows}

\* (variant: a row with the same ICAO code is replaced by the new one)
InsertOrIgnore_Replace(tbl, a) ==
  [rows |-> {r \in tbl.rows : r.icao_code # a.icaoCode}
              \cup {[id |-> tbl.next, icao_code |-> a.icaoCode,
                     name |-> a.name]},
   next |-> tbl.next + 1]

\* INSERT OR IGNORE INTO airports (...): icao_code is UNIQUE, a row whose
\* code exists is skipped; id is AUTOINCREMENT.
InsertOrIgnore(tbl, a) ==
  IF a.icaoCode \in IcaosOf(tbl)
  THEN tbl
  ELSE [rows |-> tbl.rows \cup {[id |-> tbl.next, icao_code |-> a.icaoCode,
                                 name |-> a.name]},
        next |-> tbl.next + 1]

\* (variant: the error goes up without ROLLBACK taking effect)
AirRollback_Keep ==
  /\ airports' = airports
  /\ atx' = <<>>
  /\ apc' = "rejected"

\* withTransactionAsync's catch: ROLLBACK, then the error goes up.
AirRollback ==
  /\ airports' = atx[1]
  /\ atx' = <<>>
  /\ apc' = "rejected"

\* bulkInsertAirports(list) up to the first turn of its loop: getDb, init,
\* then withTransactionAsync's BEGIN.  `ok` is FALSE when one of them throws.
BulkCall(list, ok) ==
  /\ apc = "idle"
  /\ alist' = list
  /\ aidx' = 1
  /\ abefore' = airports
  /\ IF ok
     THEN /\ atx' = <<airports>>
          /\ apc' = "loop"
     ELSE /\ atx' = <<>>
          /\ apc' = "rejected"
  /\ UNCHANGED <<airports, prevList>>

\* One turn of `for (const airport of airports)`: db.runAsync settles.
BulkInsert(ok) ==
  /\ apc = "loop"
  /\ aidx <= Len(alist)
  /\ IF ok
     THEN /\ airports' = InsertOrIgnore(airports, alist[aidx])
          /\ aidx' = aidx + 1
          /\ UNCHANGED <<atx, apc>>
     ELSE /\ AirRollback
          /\ UNCHANGED aidx
  /\ UNCHANGED <<alist, abefore, prevList>>

\* The callback returned: COMMIT, and the call resolves.
BulkCommit(ok) ==
  /\ apc = "loop"
  /\ aidx > Len(alist)
  /\ IF ok
     THEN /\ atx' = <<>>
          /\ apc' = "resolved"
          /\ prevList' = <<alist>>
          /\ UNCHANGED airports
     ELSE /\ AirRollback
          /\ UNCHANGED prevList
  /\ UNCHANGED <<alist, aidx, abefore>>

\* The caller takes the settlement of its call.
BulkReturn ==
  /\ apc \in {"resolved", "rejected"}
  /\ apc' = "idle"
  /\ alist' = <<>>
  /\ aidx' = 1
  /\ UNCHANGED <<airports, atx, abefore, prevList>>

AirStep ==
  \/ \E list \in AirportLists, ok \in BOOLEAN : BulkCall(list, ok)
  \/ \E ok \in BOOLEAN : BulkInsert(ok)
  \/ \E ok \in BOOLEAN : BulkCommit(ok)
  \/ BulkReturn

\* --------------------------------------------------------- specifications
\* The migration variables of a process whose database is ready.
MigRest ==
  /\ db = FreshDb
  /\ tx = <<>>
  /\ sessionVersion = Null
  /\ lastCheck = <<>>
  /\ wall = 2
  /\ mpc = [m \in Callers |-> "idle"]
  /\ cur = [m \in Callers |-> 0]
  /\ before = [m \in Callers |-> FreshDb]
  /\ probed = [m \in Callers |-> FALSE]
  /\ mfault = [m \in Callers |-> FALSE]
  /\ failedAt = [m \in Callers |-> ""]
  /\ everOk = FALSE

\* The Database object before any of its methods ran.
DbRest ==
  /\ dpc = "idle"
  /\ initialized = FALSE

\* No pass is running: nothing was edited behind one.
EditRest == edited = {}

Init == SyncInit /\ MigRest /\ DbRest /\ StoreRest /\ AirRest /\ EditRest
Next == SyncNext /\ UNCHANGED <<migVars, dbVars, storeVars, airVars, editVars>>
\* The sync orchestrator over an initialised database.
Spec == Init /\ [][Next]_vars

\* A process start: a fresh database or a pre-ledger install, with or
\* without a stored last-check time (half a day or a day old).
MigInit ==
  /\ SyncInit
  /\ db \in {FreshDb} \cup {LegacyDb(n) : n \in 0..MaxLegacyRows}
  /\ tx = <<>>
  /\ sessionVersion = Null
  /\ wall = 2
  /\ lastCheck \in {<<>>, <<0>>, <<HalfDay>>}
  /\ mpc = [m \in Callers |-> "idle"]
  /\ cur = [m \in Callers |-> 0]
  /\ before = [m \in Callers |-> FreshDb]
  /\ probed = [m \in Callers |-> FALSE]
  /\ mfault = [m \in Callers |-> FALSE]
  /\ failedAt = [m \in Callers |-> ""]
  /\ everOk = FALSE
  /\ DbRest
  /\ StoreRest
  /\ AirRest
  /\ EditRest

MigNext ==
  /\ \/ MigStep(1)
     \/ MigIdle /\ MigEnv
  /\ UNCHANGED <<syncVars, dbVars, storeVars, airVars, editVars>>
\* One caller at a time runs checkAndRunMigrations.
MigSpec == MigInit /\ [][MigNext]_vars

\* A task calls checkAndRunMigrations while no call has settled yet.
RaceCall(m) ==
  /\ \A n \in Callers : mpc[n] \notin {"done", "failed"}
  /\ MigCall(m)

\* A running call resumes at the await it is suspended on.
RaceStep(m) ==
  /\ mpc[m] \notin {"idle", "done", "failed"}
  /\ MigStep(m)

RaceNext ==
  /\ \/ \E m \in Callers : RaceCall(m)
     \/ \E m \in Callers : RaceStep(m)
  /\ UNCHANGED <<syncVars, dbVars, storeVars, airVars, editVars>>
\* Two cooperative tasks call checkAndRunMigrations on the same connection,
\* each before the other's call has settled.
RaceSpec == MigInit /\ [][RaceNext]_vars

FeedStep ==
  \/ \E l \in Listeners : Subscribe(l)
  \/ \E l \in Listeners : Unsubscribe(l)

FeedNext ==
  /\ \/ Quiet /\ \E t \in Tasks \ {Background} : SyncStep(t)
     \/ Quiet /\ \E sync \in CreateInputs : CreateEntry("draft", sync)
     \/ Quiet /\ FeedStep
     \/ \E t \in Tasks \ {Background} : Return(t) /\ UNCHANGED bg
  /\ UNCHANGED <<migVars, dbVars, storeVars, airVars, editVars>>
\* The foreground passes with status listeners coming and going.
FeedSpec == Init /\ [][FeedNext]_vars

ThrowNext ==
  /\ \/ Quiet /\ \E t \in Tasks \ {Background} : SyncStep(t)
     \/ Quiet /\ \E t \in Tasks \ {Background}, l \in Listeners,
                    H \in SUBSET Listeners : SyncNow_BeginThrows(t, l, H)
     \/ Quiet /\ \E sync \in CreateInputs : CreateEntry("draft", sync)
     \/ Quiet /\ FeedStep
     \/ \E t \in Tasks \ {Background} : Return(t) /\ UNCHANGED bg
  /\ UNCHANGED <<migVars, dbVars, storeVars, airVars, editVars>>
\* The foreground passes with status listeners that may throw when called.
ThrowSpec == Init /\ [][ThrowNext]_vars

ClockNext ==
  /\ \/ Quiet /\ \E t \in Tasks \ {Background} : SyncStep(t)
     \/ Quiet /\ UserStep
     \/ Quiet /\ Tick
     \/ \E t \in Tasks \ {Background} : Return(t) /\ UNCHANGED bg
  /\ UNCHANGED <<migVars, dbVars, storeVars, airVars, editVars>>
\* The foreground passes while the clock moves and the UI writes entries.
ClockSpec == Init /\ [][ClockNext]_vars

InPass == {"netinfo", "read", "remote", "wbSynced", "wbFailed", "catchNet",
           "catchErr"}
BatchIds(t) == {batch[t][i].id : i \in 1..Len(batch[t])}
\* The entries of the batch a running pass has read.
InFlight ==
  UNION {BatchIds(t) : t \in {u \in Tasks : pc[u] \in InPass \ {"netinfo", "read"}}}

\* DatabaseContext.updateFlight(id, flight): Database.updateEntry with the
\* patch completed by syncStatus "pending".
UpdateFlight(id, patch) ==
  /\ patch.syncStatus = "pending"
  /\ EditEntry(id, patch)
  /\ edited' = IF id \in InFlight THEN edited \cup {id} ELSE edited

EditNext ==
  /\ \/ Quiet /\ (\E t \in Tasks \ {Background} : SyncStep(t))
              /\ UNCHANGED edited
     \/ Quiet /\ (\E sync \in CreateInputs : CreateEntry("draft", sync))
              /\ UNCHANGED edited
     \/ Quiet /\ \E id \in Ids, p \in {q \in Patches : "syncStatus" \in DOMAIN q} :
                    UpdateFlight(id, p)
     \/ \E t \in Tasks \ {Background} :
          Return(t) /\ UNCHANGED bg /\ edited' = {}
  /\ UNCHANGED <<migVars, dbVars, storeVars, airVars>>
\* The foreground passes while the UI edits entries through updateFlight.
EditSpec == Init /\ [][EditNext]_vars

StoreNext == StoreStep /\ UNCHANGED <<migVars, dbVars, airVars, editVars>>
\* The Database methods called one at a time by any caller.
StoreSpec == Init /\ [][StoreNext]_vars

AirNext == AirStep /\ UNCHANGED <<syncVars, migVars, dbVars, storeVars, editVars>>
\* One caller at a time seeds the airports table.
AirportSpec == Init /\ [][AirNext]_vars

DbNext ==
  /\ \/ DbStep
     \/ dpc = "idle" /\ MigEnv /\ UNCHANGED dbVars
  /\ UNCHANGED <<syncVars, storeVars, airVars, editVars>>
\* One caller at a time uses the Database object, which runs the migration
\* manager from init().
DbSpec == MigInit /\ [][DbNext]_vars

\* ------------------------------------------------------------- properties
\* The step in which task t's pass settles.
PassEnds(t) == pc[t] \in InPass /\ pc'[t] = "done"
BusyResult ==
  [success |-> FALSE, synced |-> -1, failed |-> -1, error |-> Busy]

\* C1: at most one pass is in flight; a syncNow() entered while a pass is
\* running settles at once with 'Sync already in progress', without a
\* connectivity check, a database read or a request, so two overlapping
\* calls send at most one request.
C1_AtMostOnePass ==
  [][/\ Cardinality({t \in Tasks : pc'[t] \in InPass}) <= 1
     /\ \A t \in Tasks :
          (pc[t] = "idle" /\ pc'[t] # "idle"
             /\ \E u \in Tasks \ {t} : pc[u] \in InPass)
          => /\ pc'[t] = "done"
             /\ result'[t] = BusyResult
             /\ UNCHANGED <<rows, requests, syncing, currentStatus, batch,
                            resp>>]_vars

C1_Witness ==
  \E t, u \in Tasks :
    /\ pc[t] = "remote" /\ requests = 1
    /\ pc[u] = "done" /\ result[u] = BusyResult

\* C2: a pass whose remote call fails at the transport level leaves every
\* entry of its batch pending, so the next pass reads the same set.
C2_TransportFailureKeepsPending ==
  [][\A t \in Tasks :
       (PassEnds(t) /\ resp[t].kind \in {"neterr", "othererr"} /\ ~touched')
       => /\ \A i \in BatchIds(t) : rows'[i].syncStatus = "pending"
          /\ PendingIds(rows') = BatchIds(t)]_vars

\* C3: with a response that lists some batch entries as synced and the
\* others as failed, after the pass the former are synced under the server
\* id the response gave, the latter are in error, and getStats() reports no
\* pending entry when every batch entry was listed.
C3_OutcomeMapping ==
  [][\A t \in Tasks :
       (/\ PassEnds(t) /\ resp[t].kind = "detail"
        /\ ~fault'[t] /\ ~touched'
        /\ DOMAIN resp[t].synced \cap resp[t].failed = {})
       => /\ \A i \in BatchIds(t) \cap DOMAIN resp[t].synced :
               /\ rows'[i].syncStatus = "synced"
               /\ rows'[i].serverId = resp[t].synced[i]
          /\ \A i \in BatchIds(t) \cap resp[t].failed :
               rows'[i].syncStatus = "error"
          /\ BatchIds(t) \subseteq (DOMAIN resp[t].synced \cup resp[t].failed)
               => GetStats(rows').pending = 0]_vars

C3_Witness ==
  \E t \in Tasks :
    /\ pc[t] = "done" /\ resp[t].kind = "detail" /\ ~fault[t] /\ ~touched
    /\ \E i, j \in BatchIds(t) :
         /\ i \in DOMAIN resp[t].synced /\ i \notin resp[t].failed
         /\ j \in resp[t].failed /\ j \notin DOMAIN resp[t].synced
         /\ rows[i].syncStatus = "synced" /\ rows[i].serverId = ServerIdOf(i)
         /\ rows[j].syncStatus = "error"
    /\ GetStats(rows).pending = 0

\* C4: the sync engine sets an entry to error only in a pass whose response
\* lists that entry in its failed array.
C4_ErrorOnlyOnRejection ==
  [][\A i \in DOMAIN rows \cap DOMAIN rows' :
       (rows[i].syncStatus # "error" /\ rows'[i].syncStatus = "error")
       => \E t \in Tasks : /\ pc[t] \in InPass
                            /\ resp[t].kind = "detail"
                            /\ i \in resp[t].failed]_vars

\* C5: an entry goes from pending to synced only in a pass whose remote call
\* returned a response that lists the entry as synced or carries no
\* per-entry detail at all.
C5_SyncedOnlyOnAcceptance ==
  [][\A i \in DOMAIN rows \cap DOMAIN rows' :
       (rows[i].syncStatus = "pending" /\ rows'[i].syncStatus = "synced")
       => \E t \in Tasks : /\ pc[t] \in InPass
                            /\ \/ resp[t].kind = "nodetail"
                               \/ /\ resp[t].kind = "detail"
                                  /\ i \in DOMAIN resp[t].synced]_vars


\* ---------------------------------------------------- migration properties
TxLabels == {"v2_airports", "v2_airportIdx", "v2_flightCheck",
             "v2_createFlight", "v2_flightIdx", "v2_newIdx", "insert",
             "commit"} \cup {AlterLabel(k) : k \in 1..Len(V2Columns)}

\* The application schema and data of a database: everything but the ledger.
SchemaOf(d) == [airports |-> d.airports, indexes |-> d.indexes,
                flightTable |-> d.flightTable, flightCols |-> d.flightCols,
                frows |-> d.frows]

\* C6 as stated: whenever checkAndRunMigrations has returned without
\* throwing, the ledger's maximum recorded version is the target version.
C6_ReturnImpliesTarget ==
  \A m \in Callers : mpc[m] = "done" => MaxVersion(db) = TARGET_SCHEMA_VERSION

\* C6, amended: whenever checkAndRunMigrations has returned without throwing
\* after performing the version probe, the ledger's maximum recorded version
\* is the target version.  (A call answered by the session flag or by the
\* throttle returns without looking at the database.)
C6_ProbedReturnImpliesTarget ==
  \A m \in Callers :
    (mpc[m] = "done" /\ probed[m]) => MaxVersion(db) = TARGET_SCHEMA_VERSION

C6_Witness ==
  \E m \in Callers :
    /\ mpc[m] = "done" /\ probed[m] /\ cur[m] = 0
    /\ before[m] = LegacyDb(MaxLegacyRows)
    /\ Versions(db) = {TARGET_SCHEMA_VERSION}

\* C7: the statements of migration v2 and the insert of its ledger row run in
\* one transaction.  A call that leaves the transaction otherwise than by a
\* successful COMMIT rejects, and the database then shows the application
\* schema, the data and the ledger rows it had when the call began (so no
\* row for version 2 unless it had one before); a call that leaves it by
\* COMMIT has the ledger row for version 2.
C7_MigrationAtomic ==
  [][\A m \in Callers :
       (mpc[m] \in TxLabels /\ mpc'[m] \notin TxLabels) =>
         \/ /\ mpc[m] = "commit" /\ mpc'[m] = "setItem"
            /\ tx' = <<>>
            /\ TARGET_SCHEMA_VERSION \in Versions(db')
         \/ /\ mpc'[m] = "failed"
            /\ tx' = <<>>
            /\ SchemaOf(db') = SchemaOf(before[m])
            /\ db'.ledger = before[m].ledger
            /\ (TARGET_SCHEMA_VERSION \notin Versions(before[m])
                  => TARGET_SCHEMA_VERSION \notin Versions(db'))]_vars

\* A legacy install whose migration failed at the third ALTER TABLE: the
\* airports table, its indexes and two added columns were rolled back.
C7_Witness ==
  \E m \in Callers :
    /\ mpc[m] = "failed" /\ failedAt[m] = "v2_alter3"
    /\ before[m] = LegacyDb(MaxLegacyRows)
    /\ ~db.airports /\ db.flightCols = {} /\ db.ledger = {}

\* The ledger rows that are committed.
Committed(d, t) == IF t = <<>> THEN d.ledger ELSE t[1].ledger

RowsPreserved(d0, d) ==
  /\ DOMAIN d.frows = DOMAIN d0.frows
  /\ \A i \in DOMAIN d0.frows :
       /\ d.frows[i].legacy = d0.frows[i].legacy
       /\ DOMAIN d.frows[i].v2 = V2ColumnSet
       /\ d.frows[i].v2["night_time_method"] = "manual"
       /\ \A c \in V2ColumnSet \ {"night_time_method"} :
            d.frows[i].v2[c] = "NULL"

\* C9: when a call has migrated a database that already had a flight_entries
\* table, the number of rows is unchanged, every pre-existing value of every
\* row is unchanged, and every added column of those rows holds its declared
\* default (night_time_method 'manual', the others NULL).
C9_AdditiveMigration ==
  \A m \in Callers :
    (mpc[m] \in {"setItem", "done", "failed"} /\ probed[m]
       /\ before[m].flightTable
       /\ TARGET_SCHEMA_VERSION \notin Versions(before[m])
       /\ TARGET_SCHEMA_VERSION \in Versions(db))
      => RowsPreserved(before[m], db)

C9_Witness ==
  \E m \in Callers :
    /\ mpc[m] = "done" /\ probed[m] /\ cur[m] = 0
    /\ before[m] = LegacyDb(MaxLegacyRows)
    /\ MaxLegacyRows >= 1
    /\ TARGET_SCHEMA_VERSION \in Versions(db)
    /\ db.frows[1].v2["night_time_method"] = "manual"
    /\ db.frows[1].legacy = before[m].frows[1].legacy

\* C10: a probe that finds no usable ledger version starts from version 0,
\* and migration v2 then completes whatever tables, columns and indexes
\* exist: inside the transaction a call fails only when the storage engine
\* fails a statement, never because a v2 column is already there.
C10_ToleratesExistingColumns ==
  [][\A m \in Callers :
       /\ (mpc[m] \in {"probeTable", "probeMax"} /\ probed'[m]
             /\ ~(db.ledgerTable /\ MaxVersion(db) > 0)) => cur'[m] = 0
       /\ (mpc[m] \in TxLabels /\ mpc'[m] = "failed") => mfault'[m]]_vars


\* ------------------------------------------- sync properties, continued
\* C11: for every pass that is not silent and was not turned away as already
\* syncing, the statuses it emitted start with syncing and end with idle,
\* the status before that idle being success or error; and once the pass has
\* returned the current status is idle.
C11_StatusMachine ==
  \A t \in Tasks :
    (pc[t] = "done" /\ ~silent[t] /\ t # Background /\ result[t].error # Busy)
      => LET e == emitted[t] IN
         /\ Len(e) >= 3
         /\ e[1].status = "syncing"
         /\ e[Len(e)].status = "idle"
         /\ e[Len(e) - 1].status \in {"success", "error"}
         /\ currentStatus.status = "idle"

\* C12: when the connectivity check of a pass reports not connected, the
\* call ends at once with the failure result carrying the no-connection
\* message: pending entries are not read, no request is sent, no row changes.
C12_OfflineAbort ==
  [][\A t \in Tasks :
       (conn'[t] = "offline" /\ conn[t] # "offline") =>
         /\ pc[t] = "netinfo" /\ pc'[t] = "done"
         /\ result'[t].success = FALSE
         /\ result'[t].error = Offline
         /\ batch'[t] = <<>>
         /\ ~syncing'
         /\ UNCHANGED <<rows, requests>>]_vars

C12_Witness ==
  \E t \in Tasks :
    /\ pc[t] = "done" /\ conn[t] = "offline"
    /\ result[t].error = Offline /\ ~result[t].success
    /\ PendingIds(rows) # {}
    /\ requests = 0

\* Something failed inside the pass of task t.
FailedInside(t) ==
  \/ conn[t] \in {"offline", "throws"}
  \/ fault[t]
  \/ resp[t].kind \in {"neterr", "othererr"}

\* C13: syncNow() never rejects; whatever failed inside a pass (connectivity
\* query, reading pending entries, remote call, local write-back), the call
\* ends with a result whose success is false and whose error is a message.
C13_FailureIsStructured ==
  \A t \in Tasks :
    (pc[t] = "done" /\ FailedInside(t)) =>
      /\ result[t].success = FALSE
      /\ result[t].error # ""

\* C14: an update of a synced entry that changes a domain field (here
\* remarks) leaves the entry pending.
C14_PendingAfterEdit ==
  [][\A i \in DOMAIN rows \cap DOMAIN rows' :
       (rows[i].syncStatus = "synced" /\ rows'[i].remarks # rows[i].remarks)
         => rows'[i].syncStatus = "pending"]_vars


\* C18: the background callback reports new-data exactly when its silent
\* pass succeeded and synced at least one entry, failed whenever the pass
\* failed, and no-data otherwise.
C18_BackgroundOutcome ==
  [][(bg = "calling" /\ bg' # "calling"
        /\ result[Background].error # Busy)
       => LET r == result[Background] IN
          bg' = IF r.success /\ r.synced > 0 THEN "NewData"
                ELSE IF ~r.success THEN "Failed"
                ELSE "NoData"]_vars

\* A step of the call of task t.
StepOf(t) == pc'[t] # pc[t] \/ idx'[t] # idx[t]

\* C19: no step of a silent call, on any path (turned away as busy, offline,
\* nothing pending, success, rejection, exception), changes the current
\* status or calls a listener.
C19_SilentEmitsNothing ==
  [][\A t \in Tasks :
       (StepOf(t) /\ (t = Background \/ silent[t] \/ silent'[t])) =>
         /\ currentStatus' = currentStatus
         /\ emitted'[t] = <<>>
         /\ heard' = heard]_vars

\* A silent pass that synced an entry while the status stayed as it was.
C19_Witness ==
  /\ pc[Background] = "done" /\ silent[Background]
  /\ result[Background].success /\ result[Background].synced >= 1
  /\ emitted[Background] = <<>>
  /\ currentStatus = Status("idle", 0)


\* ------------------------------------- migration properties, continued
\* The persisted last-check timestamp is missing or at least 24 hours old.
Stale ==
  \/ lastCheck = <<>>
  \/ NowMs - lastCheck[1] >= 24 * 60 * 60 * 1000

\* C15 as stated: with the session flag unset, a call probes the schema
\* version if and only if there is no persisted timestamp or it is at least
\* 24 hours old; otherwise it does not probe and sets the session flag.
C15_ProbeIffStale ==
  [][\A m \in Callers :
       (mpc[m] = "throttle" /\ mpc'[m] # "throttle") =>
         /\ (mpc'[m] = "probeTable") <=> Stale
         /\ ~Stale => (mpc'[m] = "done" /\ ~probed'[m]
                         /\ sessionVersion' = TARGET_SCHEMA_VERSION)]_vars

\* C15, amended: with the session flag unset, a call probes the schema
\* version if and only if the persisted timestamp is missing, at least 24
\* hours old, or cannot be read; otherwise it does not probe and sets the
\* session flag.  A probe that reads an up-to-date database applies no
\* migration: the call goes on to record the check, the database unchanged.
C15_ProbeIffStaleOrUnreadable ==
  [][\A m \in Callers :
       /\ (mpc[m] = "throttle" /\ mpc'[m] # "throttle") =>
            /\ (mpc'[m] = "probeTable") <=> (Stale \/ mfault'[m])
            /\ ~(Stale \/ mfault'[m]) =>
                 (mpc'[m] = "done" /\ ~probed'[m]
                    /\ sessionVersion' = TARGET_SCHEMA_VERSION)
       /\ (mpc[m] \in {"probeTable", "probeMax"} /\ probed'[m]
             /\ MaxVersion(db) = TARGET_SCHEMA_VERSION /\ ~mfault'[m]) =>
            (mpc'[m] = "setItem" /\ db' = db)]_vars

\* A call made 24 hours after the recorded check: it probed, found the
\* database up to date and is about to record the new check.
C15_Witness ==
  \E m \in Callers :
    /\ mpc[m] = "setItem" /\ probed[m] /\ cur[m] = TARGET_SCHEMA_VERSION
    /\ lastCheck # <<>>
    /\ NowMs - lastCheck[1] = 24 * 60 * 60 * 1000
    /\ db = before[m]

\* C16: a call that returns without throwing leaves the session flag set;
\* only resetSessionCache / forceMigrationCheck unset it; while it is set a
\* call returns at once, with no database query or write and no read or
\* write of the persisted timestamp; once it is unset a call reads the
\* timestamp again and, the timestamp removed, queries the database.
C16_SessionCache ==
  [][/\ \A m \in Callers :
          /\ mpc'[m] = "done" => sessionVersion' = TARGET_SCHEMA_VERSION
          /\ (mpc[m] = "idle" /\ mpc'[m] # "idle"
                /\ sessionVersion = TARGET_SCHEMA_VERSION) =>
               /\ mpc'[m] = "done" /\ ~probed'[m]
               /\ UNCHANGED <<db, tx, lastCheck, sessionVersion>>
          /\ (mpc[m] = "idle" /\ mpc'[m] # "idle"
                /\ sessionVersion # TARGET_SCHEMA_VERSION) =>
               mpc'[m] = "throttle"
          /\ (mpc[m] = "throttle" /\ mpc'[m] # "throttle" /\ lastCheck = <<>>)
               => mpc'[m] = "probeTable"
     /\ (sessionVersion = TARGET_SCHEMA_VERSION
           /\ sessionVersion' # TARGET_SCHEMA_VERSION) =>
          (MigIdle /\ UNCHANGED <<db, tx, mpc>>)]_vars

\* A call answered by the session flag alone: the recorded check is 24
\* hours old, the timestamp was read by nobody, the database was not probed.
C16_Witness ==
  \E m \in Callers :
    /\ mpc[m] = "done" /\ ~probed[m] /\ ~mfault[m]
    /\ lastCheck # <<>> /\ NowMs - lastCheck[1] >= 24 * 60 * 60 * 1000
    /\ TARGET_SCHEMA_VERSION \in Versions(db)
    /\ sessionVersion = TARGET_SCHEMA_VERSION


\* C17: when checkAndRunMigrations throws inside init(), the call rejects
\* and `initialized` stays false; a call on an object that is not initialized
\* runs init() again; no call reaches its own statement unless the object is
\* initialized, and it becomes initialized only in an init() whose migration
\* call returned.
C17_FailedMigrationIsFatal ==
  [][/\ (dpc = "migrating" /\ mpc[1] = "failed" /\ dpc' # dpc) =>
          (dpc' \in Rejected /\ ~initialized')
     /\ (dpc = "open" /\ ~initialized /\ dpc' \notin Rejected \cup {"open"}) =>
          dpc' = "pragma"
     /\ dpc' = "stmt" => initialized'
     /\ (initialized' /\ ~initialized) => mpc[1] = "done"]_vars

\* A call whose init() found the ledger table of an earlier failed migration
\* and whose migration failed again, with no storage fault.
C17_Witness ==
  /\ dpc = "migrating" /\ mpc[1] = "failed" /\ ~mfault[1]
  /\ before[1].ledgerTable
  /\ TARGET_SCHEMA_VERSION \notin Versions(before[1])
  /\ ~initialized


\* The statuses passed to updateStatus in the step.
NewStatuses ==
  IF \E t \in Tasks : Len(emitted'[t]) > Len(emitted[t])
  THEN LET t == CHOOSE u \in Tasks : Len(emitted'[u]) > Len(emitted[u])
       IN SubSeq(emitted'[t], Len(emitted[t]) + 1, Len(emitted'[t]))
  ELSE <<>>

\* C20: a listener is called once with the current status when it
\* subscribes, then with every status passed to updateStatus, in order, for
\* as long as it is subscribed, and not at all once unsubscribed; each
\* subscribed listener gets every one of them, whatever the others do.
C20_StatusFeed ==
  [][\A l \in Listeners :
       /\ (l \in listeners /\ l \in listeners') =>
            heard'[l] = heard[l] \o NewStatuses
       /\ (l \notin listeners /\ l \in listeners') =>
            heard'[l] = heard[l] \o <<currentStatus>>
       /\ l \notin listeners' => heard'[l] = heard[l]]_vars

\* Two listeners subscribed before a pass; one unsubscribed after the first
\* status and heard nothing more, the other heard the pass to its end.
C20_Witness ==
  \E k, l \in Listeners :
    /\ k \in listeners /\ l \notin listeners
    /\ heard[l] = <<Status("idle", 0), Status("syncing", 0)>>
    /\ heard[k] = <<Status("idle", 0), Status("syncing", 0),
                    Status("syncing", 100), Status("success", 100),
                    Status("idle", 100)>>

\* ------------------------------------------- sync properties, continued
\* C23: a pass whose response carries neither a synced nor a failed array
\* marks every entry of its batch synced, under the entry's existing server
\* id or else its local id, and ends with success, synced = batch size and
\* failed = 0.
C23_DegenerateResponse ==
  [][\A t \in Tasks :
       /\ (PassEnds(t) /\ resp[t].kind = "nodetail" /\ ~fault'[t])
          => /\ result'[t].success
             /\ result'[t].synced = Len(batch[t])
             /\ result'[t].failed = 0
             /\ ~touched' =>
                  \A i \in BatchIds(t) : rows'[i].syncStatus = "synced"
       /\ (pc[t] = "wbSynced" /\ resp[t].kind = "nodetail"
             /\ idx'[t] = idx[t] + 1 /\ batch[t][idx[t]].id \in DOMAIN rows)
          => LET e == batch[t][idx[t]] IN
             /\ rows'[e.id].syncStatus = "synced"
             /\ rows'[e.id].serverId =
                  (IF e.serverId # Null THEN e.serverId ELSE e.id)
             /\ rows'[e.id].lastSyncedAt = now]_vars

\* A pass over two entries, one of which already had a server id, ended on
\* a response without detail.
C23_Witness ==
  \E t \in Tasks :
    /\ pc[t] = "done" /\ resp[t].kind = "nodetail" /\ ~fault[t] /\ ~touched
    /\ Len(batch[t]) = 2
    /\ \E i, j \in BatchIds(t) :
         /\ rows[i].syncStatus = "synced" /\ rows[i].serverId = i
         /\ rows[j].syncStatus = "synced" /\ rows[j].serverId = ServerIdOf(j)
    /\ result[t] = [success |-> TRUE, synced |-> 2, failed |-> 0, error |-> ""]

\* C24: a pass submits at the step that ends its read and at no other: one
\* request, whose payload holds exactly the entries that are pending at
\* that read, each once, in ascending order of creation time.  (A request
\* is one call of ApiClient.syncEntries, one POST of the whole batch; the
\* HTTP client repeats that POST, same payload, after a 401 that made it
\* refresh the access token.)
C24_OneRequestOfPending ==
  [][/\ \A t \in Tasks :
          (pc[t] = "read" /\ pc'[t] = "remote")
          => /\ requests' = requests + 1
             /\ {batch'[t][i].id : i \in 1..Len(batch'[t])} = PendingIds(rows)
             /\ Len(batch'[t]) = Cardinality(PendingIds(rows))
             /\ \A i, j \in 1..Len(batch'[t]) :
                  i < j => rows[batch'[t][i].id].createdAt
                             <= rows[batch'[t][j].id].createdAt
     /\ requests' # requests
          => \E t \in Tasks : pc[t] = "read" /\ pc'[t] = "remote"
     /\ \A t \in Tasks :
          (pc[t] \in InPass \ {"netinfo", "read"} /\ pc'[t] \in InPass)
          => batch'[t] = batch[t]]_vars

\* The second request carries two entries created at different times, the
\* older first.
C24_Witness ==
  \E t \in Tasks :
    /\ pc[t] = "remote" /\ requests = 2 /\ Len(batch[t]) = 2 /\ ~touched
    /\ rows[batch[t][1].id].createdAt < rows[batch[t][2].id].createdAt

\* C25: a pass that reads zero pending entries ends with success, synced 0
\* and failed 0, sends no request and changes no entry.
C25_NothingPending ==
  [][\A t \in Tasks :
       (pc[t] = "read" /\ pc'[t] # "read" /\ ~fault'[t]
          /\ PendingIds(rows) = {})
       => /\ pc'[t] = "done"
          /\ result'[t].success
          /\ result'[t].synced = 0
          /\ result'[t].failed = 0
          /\ UNCHANGED <<rows, requests>>]_vars

\* A pass ended on an empty read although the table holds entries.
C25_Witness ==
  \E t \in Tasks :
    /\ pc[t] = "done" /\ conn[t] = "connected" /\ ~fault[t]
    /\ batch[t] = <<>> /\ result[t].success /\ result[t].synced = 0
    /\ DOMAIN rows # {} /\ PendingIds(rows) = {}
    /\ requests = 1

\* C26: when a storage call of the write-back throws, no entry of the batch
\* has a sync state other than the one the pass read (pending).
C26_WriteBackAtomic ==
  [][\A t \in Tasks :
       (pc[t] \in {"wbSynced", "wbFailed"} /\ fault'[t] /\ ~fault[t]
          /\ ~touched')
       => \A i \in BatchIds(t) : rows'[i].syncStatus = "pending"]_vars

\* C27: no step of a pass creates or deletes an entry or changes an entry's
\* lifecycle status, its domain fields, its id or its creation time.
C27_PassFrame ==
  [][(\E t \in Tasks : StepOf(t))
       => /\ DOMAIN rows' = DOMAIN rows
          /\ \A i \in DOMAIN rows :
               /\ rows'[i].id = rows[i].id
               /\ rows'[i].status = rows[i].status
               /\ rows'[i].remarks = rows[i].remarks
               /\ rows'[i].createdAt = rows[i].createdAt]_vars

\* A pass ended with one entry synced and one in error, both edited before.
C27_Witness ==
  \E t \in Tasks :
    /\ pc[t] = "done" /\ Len(batch[t]) = 2 /\ ~touched
    /\ \E i, j \in BatchIds(t) :
         /\ rows[i].syncStatus = "synced" /\ rows[i].remarks = "r1"
         /\ rows[j].syncStatus = "error" /\ rows[j].remarks = "r1"
         /\ rows[i].status = "draft" /\ rows[j].status = "draft"

\* ------------------------------------------------------ store properties
\* The ids of a sequence of ids.
Range(q) == {q[i] : i \in 1..Len(q)}

\* C21: a synced entry has a server id and a last-synced time, and only
\* markAsSynced makes an existing entry synced or writes its server id or
\* its last-synced time.
C21_SyncedOnlyByMarkAsSynced ==
  [][/\ \A i \in DOMAIN rows' :
          rows'[i].syncStatus = "synced"
          => rows'[i].serverId # Null /\ rows'[i].lastSyncedAt # Null
     /\ outcome'.op # "markAsSynced"
          => \A i \in DOMAIN rows \cap DOMAIN rows' :
               /\ rows'[i].syncStatus = "synced"
                    => rows[i].syncStatus = "synced"
               /\ rows'[i].serverId = rows[i].serverId
               /\ rows'[i].lastSyncedAt = rows[i].lastSyncedAt]_vars

\* C22: an entry createEntry has just inserted is pending, and a
\* getPendingSyncEntries() that follows the creation returns it.
C22_CreatedIsPending ==
  [][/\ nextId' # nextId => rows'[nextId].syncStatus = "pending"
     /\ (outcome.op = "createEntry" /\ outcome.settled = "resolved"
           /\ outcome'.op = "getPending" /\ outcome'.settled = "resolved")
          => outcome.id \in Range(outcome'.read)]_vars

\* C28: updateEntry with an empty patch, or with a patch that names only id
\* and/or createdAt, resolves and leaves every row as it was.
C28_EmptyPatchIsNoOp ==
  [][(outcome'.op = "updateEntry" /\ outcome'.fields = 0)
       => outcome'.settled = "resolved" /\ rows' = rows]_vars

\* ---------------------------------------------------- airport properties
\* C29: when bulkInsertAirports resolves, every row that was in the table
\* is there unchanged, each ICAO code of the list that was not in the table
\* has exactly one row, no other row was added, and a call with the list of
\* the call before it leaves the table as it was.
C29_BulkInsertIdempotent ==
  [][(apc = "loop" /\ apc' = "resolved")
       => LET listed == {alist[i].icaoCode : i \in 1..Len(alist)} IN
          /\ abefore.rows \subseteq airports'.rows
          /\ IcaosOf(airports') = IcaosOf(abefore) \cup listed
          /\ \A c \in IcaosOf(airports') :
               Cardinality({r \in airports'.rows : r.icao_code = c}) = 1
          /\ prevList = <<alist>> => airports' = abefore]_vars

\* The same list resolved twice in a row; it names a code whose row holds
\* another name, and the second call left the table as it was.
C29_Witness ==
  /\ apc = "resolved" /\ prevList = <<alist>> /\ Len(alist) = 2
  /\ airports = abefore /\ airports.rows # {}
  /\ \E r \in airports.rows, i \in 1..Len(alist) :
       alist[i].icaoCode = r.icao_code /\ alist[i].name # r.name

\* C30: when a statement of bulkInsertAirports' transaction fails, the call
\* rejects and the table is what it was when the call began: no row of the
\* batch stays.
C30_BulkInsertAllOrNothing ==
  [][/\ (apc = "loop" /\ apc' # "loop" /\ apc' # "resolved")
          => apc' = "rejected" /\ airports' = abefore /\ atx' = <<>>
     /\ (apc = "loop" /\ airports' # airports /\ apc' = "loop")
          => atx' # <<>> /\ atx'[1] = abefore]_vars

\* The first airport of a list was inserted, the second insert failed, and
\* the first is no longer in the table.
C30_Witness ==
  /\ apc = "rejected" /\ Len(alist) = 2 /\ aidx = 2
  /\ alist[1].icaoCode \notin IcaosOf(abefore)
  /\ alist[1].icaoCode \notin IcaosOf(airports)
  /\ airports = abefore

\* ------------------------------------------- sync properties, continued
\* C34: the background task's pass and a foreground pass are never running
\* together, and at most one task has read its batch and not yet ended, so
\* at most one remote submission is in flight.
C34_OneSubmissionAtATime ==
  /\ Cardinality({t \in Tasks : pc[t] \in InPass \ {"netinfo"}}) <= 1
  /\ pc[Background] \in InPass
       => \A t \in Tasks \ {Background} : pc[t] \notin InPass

\* The background pass has its request in flight and a foreground call was
\* turned away.
C34_Witness ==
  /\ bg = "calling" /\ pc[Background] = "remote" /\ syncing
  /\ \E t \in Tasks \ {Background} :
       pc[t] = "done" /\ result[t] = BusyResult

\* C37: in the result of a pass that submitted a batch, synced + failed is
\* at most the batch size, synced is the number of batch entries that are
\* synced when the pass ends and failed the number that are in error.
C37_CountsMatchBatch ==
  [][\A t \in Tasks :
       (PassEnds(t) /\ pc[t] \notin {"netinfo", "read"}
          /\ ~fault'[t] /\ ~touched')
       => /\ result'[t].synced + result'[t].failed <= Len(batch[t])
          /\ result'[t].synced =
               Cardinality({i \in BatchIds(t) : rows'[i].syncStatus = "synced"})
          /\ result'[t].failed =
               Cardinality({i \in BatchIds(t) : rows'[i].syncStatus = "error"})]_vars

\* C38: after a pass whose response carries per-entry detail, a batch entry
\* the response lists neither as synced nor as failed is pending, and a
\* batch entry it lists as failed is in error.
C38_UnlistedStaysPending ==
  [][\A t \in Tasks :
       (PassEnds(t) /\ resp[t].kind = "detail" /\ ~fault'[t] /\ ~touched')
       => /\ \A i \in BatchIds(t) \ (DOMAIN resp[t].synced \cup resp[t].failed) :
               rows'[i].syncStatus = "pending"
          /\ \A i \in BatchIds(t) \cap resp[t].failed :
               rows'[i].syncStatus = "error"]_vars

\* C36 as stated: a call that throws leaves the session flag unset and the
\* persisted last-check time as it was.
C36_FailureSetsNothing ==
  [][\A m \in Callers :
       (mpc'[m] = "failed" /\ mpc[m] # "failed") =>
         /\ sessionVersion' = Null
         /\ lastCheck' = lastCheck]_vars

\* What the two probe queries read from the database when both succeed.
Recorded == IF db.ledgerTable THEN MaxOf(Versions(db)) ELSE 0
ProbeEnds(m) == probed'[m] /\ ~probed[m]

\* C31 as stated: the probe returns 0 without a ledger table and the
\* maximum recorded version otherwise.
C31_ProbeExact ==
  [][\A m \in Callers : ProbeEnds(m) => cur'[m] = Recorded]_vars

\* C31, amended: the probe returns 0 when the ledger table does not exist
\* or one of its two queries fails, and otherwise the maximum recorded
\* version (0 for an empty ledger); the ledger table is created only after a
\* probe of 0, a migration step runs and a ledger row is written only for a
\* version above the probed one, and after a probe of 2 the call leaves the
\* database as it is.
C31_ProbeMaxOrZero ==
  [][\A m \in Callers :
       /\ (ProbeEnds(m) /\ (ProbeTable(m, TRUE) \/ ProbeMax(m, TRUE))) =>
            cur'[m] = Recorded
       /\ (ProbeEnds(m) /\ ~(ProbeTable(m, TRUE) \/ ProbeMax(m, TRUE))) =>
            cur'[m] = 0
       /\ (mpc[m] = "createLedger" /\ db' # db) => (probed[m] /\ cur[m] = 0)
       /\ (mpc[m] \in TxLabels \cup {"begin"}) =>
            (probed[m] /\ cur[m] < TARGET_SCHEMA_VERSION)
       /\ \A r \in db'.ledger \ db.ledger : r.version > cur[m]
       /\ (probed[m] /\ cur[m] >= TARGET_SCHEMA_VERSION /\ mpc[m] # "done") =>
            db' = db]_vars

\* A call on a database whose ledger records version 2: it probed 2, applied
\* nothing and is about to record the check.
C31_Witness ==
  \E m \in Callers :
    /\ mpc[m] = "setItem" /\ probed[m] /\ ~mfault[m]
    /\ cur[m] = TARGET_SCHEMA_VERSION
    /\ Versions(db) = {TARGET_SCHEMA_VERSION}
    /\ db = before[m]

\* C39 as stated: a skipped call leaves the persisted timestamp as it was,
\* and a call made 24 hours or more after the recorded check goes on to
\* probe.
C39_StaleCallProbes ==
  [][\A m \in Callers :
       /\ (mpc'[m] = "done" /\ mpc[m] # "done" /\ ~probed'[m]) =>
            lastCheck' = lastCheck
       /\ (mpc[m] = "idle" /\ mpc'[m] # "idle" /\ lastCheck # <<>>
             /\ NowMs - lastCheck[1] >= MIGRATION_CHECK_INTERVAL) =>
            mpc'[m] = "throttle"
       /\ (mpc[m] = "throttle" /\ mpc'[m] # "throttle" /\ lastCheck # <<>>
             /\ NowMs - lastCheck[1] >= MIGRATION_CHECK_INTERVAL) =>
            mpc'[m] = "probeTable"]_vars

\* C39, amended: a call that returns without probing (skipped by the
\* throttle or by the session flag) leaves the persisted timestamp as it
\* was; the timestamp is written only by a call that completed a probe, at
\* its end, and removed only by forceMigrationCheck; in a process whose
\* session flag is unset, a call made 24 hours or more after the recorded
\* check goes on to probe, while with the flag set it returns at once.
C39_SkipKeepsTimestamp ==
  [][/\ \A m \in Callers :
          /\ (mpc'[m] = "done" /\ mpc[m] # "done" /\ ~probed'[m]) =>
               lastCheck' = lastCheck
          /\ (mpc[m] = "idle" /\ mpc'[m] # "idle" /\ lastCheck # <<>>
                /\ NowMs - lastCheck[1] >= MIGRATION_CHECK_INTERVAL) =>
               IF sessionVersion = TARGET_SCHEMA_VERSION
               THEN mpc'[m] = "done" /\ ~probed'[m]
               ELSE mpc'[m] = "throttle"
          /\ (mpc[m] = "throttle" /\ mpc'[m] # "throttle" /\ lastCheck # <<>>
                /\ NowMs - lastCheck[1] >= MIGRATION_CHECK_INTERVAL) =>
               mpc'[m] = "probeTable"
     /\ lastCheck' # lastCheck =>
          \/ lastCheck' = <<>>
          \/ /\ lastCheck' = <<NowMs>>
             /\ \E m \in Callers :
                  mpc[m] = "setItem" /\ mpc'[m] = "done" /\ probed[m]]_vars

\* A first call skipped by the throttle: it returned without probing, and
\* the timestamp is still the one the process started with, half a day old.
C39_Witness ==
  \E m \in Callers :
    /\ mpc[m] = "done" /\ ~probed[m] /\ ~mfault[m]
    /\ sessionVersion = TARGET_SCHEMA_VERSION
    /\ lastCheck = <<HalfDay>> /\ wall = 2
    /\ db = before[m] /\ db.ledger = {}

\* C35 as stated: when two tasks call checkAndRunMigrations on a database
\* below the target version before either call has finished, and storage
\* fails no statement, both calls return and the ledger ends with exactly
\* one row for version 2.
C35_MigratesOnce ==
  (\A m \in Callers :
     /\ mpc[m] \in {"done", "failed"}
     /\ probed[m] /\ cur[m] < TARGET_SCHEMA_VERSION /\ ~mfault[m])
  => /\ \A m \in Callers : mpc[m] = "done"
     /\ Cardinality({r \in db.ledger : r.version = TARGET_SCHEMA_VERSION}) = 1

\* C32 as stated: whenever no syncNow() call is inside a pass, every call
\* made so far having settled, the busy flag is false.
C32_FlagNeverStuck ==
  (\A t \in Tasks : pc[t] \notin InPass) => ~syncing

\* C33 as stated: an entry that updateFlight reset to pending after the
\* running pass read it is not synced when that pass has ended.
C33_EditSurvivesPass ==
  \A t \in Tasks :
    pc[t] = "done" =>
      \A i \in edited \cap BatchIds(t) \cap DOMAIN rows :
        rows[i].syncStatus # "synced"

====
